---- MODULE Spec2Model ----
(***************************************************************************)
(* Model of the qubic-api sampling pipeline: src/network_stats.py (event   *)
(* log, is_valid_hashrate, calculate_network_stats, get_network_stats_data)*)
(* driven by src/app.py (update_network_stats, forced update, scheduler)   *)
(* and src/tool.py / src/utils.py (snapshot build and response cache).     *)
(*                                                                         *)
(* Time is whole seconds since 1970-01-01T00:00:00Z.  Python floats are    *)
(* modelled as exact rationals [n, d] in lowest terms.  Optional values    *)
(* (None) are sequences of length 0 or 1.                                  *)
(***************************************************************************)
EXTENDS Integers, Sequences, FiniteSets, TLC

VARIABLES
    now,                 \* wall clock: datetime.now(pytz.UTC) / time.time()
    network_stats,       \* Samples collection, in insertion order
    network_stats_logs,  \* LogEntries collection, in insertion order
    cache,               \* utils.cache: per cache key, <<>> or <<[result, timestamp]>>
    pc,                  \* position of each caller of update_network_stats
    loc,                 \* local variables of each running cycle
    cycles,              \* number of evaluation cycles started so far
    advances,            \* number of events of the environment so far (clock
                         \* advances, changes of the database)
    call,                \* arguments and result of the last call made from outside
    mongo                \* the database as mongo_client finds it: "up", "down"
                         \* (server unreachable: every operation raises) or
                         \* "network_stats_failing" (operations on the Samples
                         \* collection raise, the rest works)

vars == <<now, network_stats, network_stats_logs, cache, pc, loc, cycles, advances, call, mongo>>

-----------------------------------------------------------------------------
(* Bounds of the model *)

\* evaluation cycles started in one behaviour of SpecSerial
MaxCycles == 3
\* evaluation cycles started in one behaviour of Spec
MaxCyclesOverlap == 2
\* evaluation cycles started in one behaviour of SpecAgg
MaxCyclesAgg == 7
\* events of the environment (clock advances, changes of the database) in one
\* behaviour
MaxAdvances == 2
\* days covered by the instants the period anchor is evaluated at
AnchorDays == 14
\* evaluation cycles started in one behaviour of SpecStore
MaxCyclesStore == 2
\* greatest limit get_network_stats_logs is called with
MaxLimit == 2
\* evaluation cycles started in one behaviour of SpecEval
MaxCyclesEval == 3
\* evaluation cycles started in one behaviour of SpecRestart
MaxCyclesRestart == 2
\* evaluation cycles started in one behaviour of SpecSources
MaxCyclesSources == 3
\* greatest number of Samples of the period in SpecWindow
MaxRecords == 8
\* greatest pool_hash a pool normalizer is applied to in SpecPool
MaxPoolHash == 15
\* greatest solution count (of a pool, of the network) in SpecPool
MaxSolutions == 11
\* greatest value is_valid_hashrate is applied to in SpecValid
MaxValue == 19
\* greatest number of historical values in SpecValid
MaxHistory == 3

-----------------------------------------------------------------------------
(* Calendar *)

Day == 24 * 3600
Week == 7 * Day
Noon == 12 * 3600

\* datetime.weekday(): Monday = 0 .. Sunday = 6; 1970-01-01 was a Thursday (3)
weekday(t) == ((t \div Day) + 3) % 7

\* the first Wednesday 12:00:00 UTC after the epoch (1970-01-07T12:00:00Z)
FirstWednesdayNoon == 6 * Day + Noon

-----------------------------------------------------------------------------
(* Exact rationals standing for Python floats *)

RECURSIVE GCD(_, _)
GCD(a, b) == IF b = 0 THEN a ELSE GCD(b, a % b)

Abs(x) == IF x < 0 THEN -x ELSE x

Norm(n, d) ==
    LET g == GCD(Abs(n), Abs(d))
        s == IF d < 0 THEN -1 ELSE 1
    IN  [n |-> s * (n \div g), d |-> s * (d \div g)]

\* float(i) of an integer i
Float(i) == [n |-> i, d |-> 1]

RatAdd(a, b) == Norm(a.n * b.d + b.n * a.d, a.d * b.d)
RatSub(a, b) == Norm(a.n * b.d - b.n * a.d, a.d * b.d)
RatDiv(a, b) == Norm(a.n * b.d, a.d * b.n)
RatAbs(a) == [n |-> Abs(a.n), d |-> a.d]
RatLE(a, b) == a.n * b.d <= b.n * a.d
RatLT(a, b) == a.n * b.d < b.n * a.d
RatIsZero(a) == a.n = 0

\* int(x) of a float: truncation toward zero
RatTrunc(a) == IF a.n >= 0 THEN a.n \div a.d ELSE -((-a.n) \div a.d)

RECURSIVE RatSum(_)
RatSum(s) == IF s = <<>> THEN Float(0) ELSE RatAdd(Head(s), RatSum(Tail(s)))

\* sum(values) / len(values)
RatMean(s) == RatDiv(RatSum(s), Float(Len(s)))

\* sorted(values)
RECURSIVE Insert(_, _)
Insert(x, s) ==
    IF s = <<>> THEN <<x>>
    ELSE IF RatLE(x, Head(s)) THEN <<x>> \o s
    ELSE <<Head(s)>> \o Insert(x, Tail(s))

RECURSIVE sorted(_)
sorted(s) == IF s = <<>> THEN <<>> ELSE Insert(Head(s), sorted(Tail(s)))

\* threshold=0.5
threshold == [n |-> 1, d |-> 2]

-----------------------------------------------------------------------------
(* is_valid_hashrate *)

change_ratio_ok_strict(current_value, base) ==
    IF RatIsZero(base) THEN TRUE
    ELSE RatLT(RatDiv(RatAbs(RatSub(current_value, base)), base), threshold)

\* lines 71-74 and 85-90: always valid against 0, else change_ratio <= threshold
change_ratio_ok(current_value, base) ==
    IF RatIsZero(base) THEN TRUE
    ELSE RatLE(RatDiv(RatAbs(RatSub(current_value, base)), base), threshold)

values_for_avg_untrimmed(sorted_values) == sorted_values

\* lines 78-82: sorted_values[1:-1] of 3 values or more
values_for_avg(sorted_values) ==
    IF Len(sorted_values) >= 3
    THEN SubSeq(sorted_values, 2, Len(sorted_values) - 1)
    ELSE sorted_values

is_valid_hashrate(current_value, previous_values) ==
    IF previous_values = <<>> THEN TRUE
    ELSE IF Len(previous_values) = 1 THEN change_ratio_ok(current_value, previous_values[1])
    ELSE change_ratio_ok(current_value, RatMean(values_for_avg(sorted(previous_values))))

-----------------------------------------------------------------------------
(* Period anchor: the three copies of the computation *)

\* log_network_stats_event, lines 21-28
period_start_log(current_time) ==
    LET current_weekday == weekday(current_time)
        days_since_wednesday == (current_weekday - 2) % 7
        shifted == current_time - days_since_wednesday * Day
        replaced == (shifted \div Day) * Day + Noon
    IN  IF current_time < replaced THEN replaced - 7 * Day ELSE replaced

period_start_calc_no_step_back(current_time) ==
    LET current_weekday == weekday(current_time)
        days_since_wednesday == (current_weekday - 2) % 7
        shifted == current_time - days_since_wednesday * Day
        replaced == (shifted \div Day) * Day + Noon
    IN  replaced

\* calculate_network_stats, lines 204-211
period_start_calc(current_time) ==
    LET current_weekday == weekday(current_time)
        days_since_wednesday == (current_weekday - 2) % 7
        shifted == current_time - days_since_wednesday * Day
        replaced == (shifted \div Day) * Day + Noon
    IN  IF current_time < replaced THEN replaced - 7 * Day ELSE replaced

\* get_network_stats_data, lines 257-265
period_start_agg(current_time) ==
    LET current_weekday == weekday(current_time)
        days_since_wednesday == (current_weekday - 2) % 7
        shifted == current_time - days_since_wednesday * Day
        replaced == (shifted \div Day) * Day + Noon
    IN  IF current_time < replaced THEN replaced - 7 * Day ELSE replaced

-----------------------------------------------------------------------------
(* The store: find_one(sort=[('timestamp', -1)]), find, delete_many *)

Range(s) == {s[i] : i \in 1..Len(s)}

\* the documents find_one(sort=[('timestamp', -1)]) may return: those of greatest
\* timestamp (the store does not say which of several equal ones comes first)
find_latest(coll) ==
    {coll[i] : i \in {j \in 1..Len(coll) : \A k \in 1..Len(coll) : coll[k].timestamp <= coll[j].timestamp}}

delete_many_lt_nothing(coll, bound) == coll

\* delete_many({'timestamp': {'$lt': bound}})
delete_many_lt(coll, bound) == SelectSeq(coll, LAMBDA r : ~(r.timestamp < bound))

\* find(...).sort('timestamp', 1): stable insertion sort on the timestamp
RECURSIVE InsertByTime(_, _)
InsertByTime(r, s) ==
    IF s = <<>> THEN <<r>>
    ELSE IF r.timestamp < Head(s).timestamp THEN <<r>> \o s
    ELSE <<Head(s)>> \o InsertByTime(r, Tail(s))

RECURSIVE sort_ascending(_)
sort_ascending(s) ==
    IF s = <<>> THEN <<>>
    ELSE InsertByTime(s[Len(s)], sort_ascending(SubSeq(s, 1, Len(s) - 1)))

Reverse(s) == [i \in 1..Len(s) |-> s[Len(s) + 1 - i]]

\* .limit(n)
limit(s, n) == IF Len(s) <= n THEN s ELSE SubSeq(s, 1, n)

-----------------------------------------------------------------------------
(* Event log *)

NoData == <<>>

log_network_stats_event_no_purge(logs, current_time, event_type, message, data) ==
    IF mongo = "down" THEN logs
    ELSE Append(logs, [timestamp |-> current_time,
                       period_start |-> period_start_log(current_time),
                       event_type |-> event_type,
                       message |-> message,
                       data |-> data])

\* log_network_stats_event(event_type, message, data) run at clock value
\* current_time on the log collection logs; the result is the collection after.
\* Only period_start of the latest entry is read, and it is a function of the
\* entry's timestamp, so every candidate of find_latest gives the same result.
\* An operation of the collection that raises is caught at lines 55-56 and the
\* collection stays as it is.
log_network_stats_event(logs, current_time, event_type, message, data) ==
    IF mongo = "down" THEN logs ELSE
    LET period_start == period_start_log(current_time)
        purged ==
            IF logs # <<>>
            THEN LET last_log == CHOOSE l \in find_latest(logs) : TRUE
                     latest_period_start == last_log.period_start
                 IN  IF period_start > latest_period_start
                     THEN delete_many_lt(logs, latest_period_start)
                     ELSE logs
            ELSE logs
        log_entry == [timestamp |-> current_time,
                      period_start |-> period_start,
                      event_type |-> event_type,
                      message |-> message,
                      data |-> data]
    IN  Append(purged, log_entry)

-----------------------------------------------------------------------------
(* Period aggregator *)

window_size == 5

\* lines 291-294 (and 308-311): one reading of each record of a list
qli_values(recs) == [k \in 1..Len(recs) |-> recs[k].qli_hashrate]
apool_values(recs) == [k \in 1..Len(recs) |-> recs[k].apool_hashrate]
solutions_values(recs) == [k \in 1..Len(recs) |-> recs[k].solutions_hashrate]
minerlab_values(recs) == [k \in 1..Len(recs) |-> recs[k].minerlab_hashrate]

RECURSIVE valid_records_from_first_five(_, _)
valid_records_from_first_five(records, i) ==
    IF i >= Len(records) THEN <<>>
    ELSE
        LET record == records[i + 1]
            rest == valid_records_from_first_five(records, i + 1)
        IN  IF i < window_size THEN <<record>> \o rest
            ELSE
                LET window == SubSeq(records, i - window_size + 2, i + 1)
                    history == SubSeq(window, 1, Len(window) - 1)
                IN  IF /\ is_valid_hashrate(record.qli_hashrate, qli_values(history))
                       /\ is_valid_hashrate(record.apool_hashrate, apool_values(history))
                       /\ is_valid_hashrate(record.solutions_hashrate, solutions_values(history))
                       /\ is_valid_hashrate(record.minerlab_hashrate, minerlab_values(history))
                    THEN <<record>> \o rest
                    ELSE rest

RECURSIVE kept_among(_, _)
kept_among(records, n) ==
    IF n = 0 THEN <<>>
    ELSE
        LET kept == kept_among(records, n - 1)
            record == records[n]
            history == SubSeq(kept, Len(kept) - window_size + 2, Len(kept))
        IN  IF n < window_size THEN Append(kept, record)
            ELSE IF /\ is_valid_hashrate(record.qli_hashrate, qli_values(history))
                    /\ is_valid_hashrate(record.apool_hashrate, apool_values(history))
                    /\ is_valid_hashrate(record.solutions_hashrate, solutions_values(history))
                    /\ is_valid_hashrate(record.minerlab_hashrate, minerlab_values(history))
                 THEN Append(kept, record)
                 ELSE kept

valid_records_from_kept_history(records, i) == kept_among(records, Len(records))

\* the loop of lines 282-301 from 0-based index i on; records is the period's
\* Samples in ascending timestamp order
RECURSIVE valid_records_from(_, _)
valid_records_from(records, i) ==
    IF i >= Len(records) THEN <<>>
    ELSE
        LET record == records[i + 1]
            rest == valid_records_from(records, i + 1)
        IN  IF i < window_size - 1 THEN <<record>> \o rest
            ELSE
                \* records[i-window_size+1:i+1], then values[:-1]
                LET window == SubSeq(records, i - window_size + 2, i + 1)
                    history == SubSeq(window, 1, Len(window) - 1)
                IN  IF /\ is_valid_hashrate(record.qli_hashrate, qli_values(history))
                       /\ is_valid_hashrate(record.apool_hashrate, apool_values(history))
                       /\ is_valid_hashrate(record.solutions_hashrate, solutions_values(history))
                       /\ is_valid_hashrate(record.minerlab_hashrate, minerlab_values(history))
                    THEN <<record>> \o rest
                    ELSE rest

period_records_all(samples, period_start) == sort_ascending(samples)

\* find({'timestamp': {'$gte': period_start}}).sort('timestamp', 1)
period_records(samples, period_start) ==
    sort_ascending(SelectSeq(samples, LAMBDA r : r.timestamp >= period_start))

\* get_network_stats_data() at clock value current_time on the collection samples:
\* <<>> for None, else <<[averages, record_count, period_start]>>
\* lines 303-327: the result for the Samples that passed the window
averages_of(valid_records, period_start) ==
    IF valid_records = <<>> THEN <<>>
    ELSE <<[averages |->
              [average_qli_hashrate |->
                  RatDiv(RatSum(qli_values(valid_records)), Float(Len(valid_records))),
               average_apool_hashrate |->
                  RatDiv(RatSum(apool_values(valid_records)), Float(Len(valid_records))),
               average_solutions_hashrate |->
                  RatDiv(RatSum(solutions_values(valid_records)), Float(Len(valid_records))),
               average_minerlab_hashrate |->
                  RatDiv(RatSum(minerlab_values(valid_records)), Float(Len(valid_records)))],
            record_count |-> Len(valid_records),
            period_start |-> period_start]>>

aggregate_skip_head(records, period_start) ==
    IF records = <<>> THEN <<>>
    ELSE averages_of(valid_records_from(records, window_size - 1), period_start)

\* lines 274-327: the result for the Samples of the period
aggregate(records, period_start) ==
    IF records = <<>> THEN <<>>
    ELSE averages_of(valid_records_from(records, 0), period_start)

get_network_stats_data(samples, current_time) ==
    \* lines 329-331: find() raised
    IF mongo # "up" THEN <<>>
    ELSE aggregate(period_records(samples, period_start_agg(current_time)),
                   period_start_agg(current_time))

-----------------------------------------------------------------------------
(* Snapshot builder *)

\* What the upstream sources answer to one build.  <<>> is a source that is
\* Absent (safe_request returned None); idle is the "idle" field of the
\* miner_control payload: "true", "false" or "null".
Present(score, idle, apool, solutions, minerlab) ==
    [tick |-> TRUE, score |-> score, rate |-> TRUE, idle |-> idle, apool |-> apool,
     solutions |-> solutions, minerlab |-> minerlab, proposal |-> TRUE, malformed |-> FALSE]

Score(estimatedIts, total) == <<[estimatedIts |-> estimatedIts, total_solutions |-> total]>>
Pool(pool_hash, accepted) == <<[pool_hash |-> pool_hash, accepted_solution |-> accepted]>>

UpBase == Present(Score(10, 10), <<"false">>, Pool(10, 10), Pool(10, 10), Pool(10, 10))
UpSpike == Present(Score(100, 10), <<"false">>, Pool(100, 10), Pool(100, 10), Pool(100, 10))
UpIdle == Present(Score(10, 10), <<"true">>, Pool(10, 10), Pool(10, 10), Pool(10, 10))
UpQliZero == Present(Score(0, 10), <<"false">>, Pool(10, 10), Pool(10, 10), Pool(10, 10))
UpApoolAbsent == Present(Score(10, 10), <<"false">>, <<>>, Pool(10, 10), Pool(10, 10))
UpScoreAbsent == Present(<<>>, <<"false">>, Pool(10, 10), Pool(10, 10), Pool(10, 10))
\* the minerlab pool reports currentEpochSolutions = 0
UpMinerlabNoSolutions == Present(Score(10, 10), <<"false">>, Pool(10, 10), Pool(10, 10), Pool(10, 0))
\* the miner_control payload answers without a boolean "idle": idle_data.get('idle') is None
UpIdleNull == Present(Score(10, 10), <<"null">>, Pool(10, 10), Pool(10, 10), Pool(10, 10))
\* a payload the build cannot digest: get_tool_data ends in its except branch
UpMalformed == [UpBase EXCEPT !.malformed = TRUE]

\* How the outbound call of safe_request can end: a decoded payload, no
\* connection, a connection attempt the operating system gives up, an answer
\* with a non-2xx status, an answer with a 2xx status whose body is not JSON;
\* or not at all: the source accepts the connection and never answers, and
\* requests.request is called without a timeout (lines 40-46), so it waits.
Outcomes == {"ok", "connection_error", "timeout", "http_error", "undecodable", "no_answer"}

\* the exception the outcome raises and the handler that catches it:
\* "RequestException" is lines 49-58, "Exception" is lines 59-66.  The library
\* raises for an undecodable body either its own JSONDecodeError (a
\* RequestException that carries no response) or a ValueError, by its version.
handlers(outcome) ==
    IF outcome = "undecodable" THEN {"RequestException", "Exception"}
    ELSE IF outcome = "no_answer" THEN {}
    ELSE {"RequestException"}

\* e.response: only the HTTPError of raise_for_status carries the response
has_response(outcome) == outcome = "http_error"

\* the data of the 'error' LogEntry; <<>> is None or a key that is not set
request_error_data(url, method, outcome, handler) ==
    [url |-> url,
     method |-> method,
     status_code |-> IF handler = "RequestException" /\ has_response(outcome)
                     THEN <<"status_code">> ELSE <<>>,
     response_text |-> IF handler = "RequestException" /\ has_response(outcome)
                       THEN <<"text">> ELSE <<>>]

\* safe_request(url, method) at clock value current_time: the possible
\* [value, logs], value being "payload" (response.json()) or "None"
safe_request(logs, current_time, url, method, outcome) ==
    IF outcome = "ok" THEN {[value |-> "payload", logs |-> logs]}
    ELSE {[value |-> "None",
           logs |-> log_network_stats_event(logs, current_time, "error",
                        IF handler = "RequestException" THEN "Error in request"
                        ELSE "Unexpected error in request",
                        <<request_error_data(url, method, outcome, handler)>>)]
            : handler \in handlers(outcome)}

\* a source of get_tool_data: present (its payload decoded) or Absent (here by
\* a connection error); the log collection after the request
fetch(logs, current_time, url, present) ==
    LET r == CHOOSE x \in safe_request(logs, current_time, url, "GET",
                              IF present THEN "ok" ELSE "connection_error") : TRUE
    IN  r.logs

\* The float arithmetic of int(pool_hash / accepted_solution * total_solutions)
\* on whole numbers p, a, t with a > 0: p / a is rounded to the nearest double
\* (53 significant bits), the product with t is rounded again, int() truncates.
\* Each rounding is off by at most 2^-53 of the value, so for p * t < 2^52 the
\* product cannot cross a whole number unless p * t / a is one; only then can
\* the result differ from the exact quotient, when the quotient p / a was
\* rounded down and the product falls below p * t / a by more than half the
\* distance to the next double below it.

\* the exponent of the leading bit of p / a: the largest e with 2^e <= p / a
RECURSIVE exponent_up(_, _)
exponent_up(p, a) == IF p >= 2 * a THEN 1 + exponent_up(p, 2 * a) ELSE 0

RECURSIVE exponent_down(_, _)
exponent_down(p, a) == IF p < a THEN exponent_down(2 * p, a) - 1 ELSE 0

float_exponent(p, a) == IF p >= a THEN exponent_up(p, a) ELSE exponent_down(p, a)

RECURSIVE Pow2(_)
Pow2(n) == IF n = 0 THEN 1 ELSE 2 * Pow2(n - 1)

\* r * 2^s modulo a, by long division
RECURSIVE shifted_remainder(_, _, _)
shifted_remainder(r, a, s) == IF s = 0 THEN r ELSE shifted_remainder((2 * r) % a, a, s - 1)

\* what is left of p / a below its 53rd significant bit, in a-ths of the
\* last bit kept
division_remainder(p, a) == shifted_remainder(p % a, a, 52 - float_exponent(p, a))

\* round-to-nearest takes p / a down: the remainder is less than half
division_rounds_down(p, a) ==
    0 < division_remainder(p, a) /\ 2 * division_remainder(p, a) < a

\* the exponent of the doubles just below the whole number k >= 1
exponent_below(k) ==
    IF Pow2(exponent_up(k, 1)) = k THEN exponent_up(k, 1) - 1 ELSE exponent_up(k, 1)

\* the product of the rounded quotient with t lies nearer to the double below
\* k = p * t / a than to k:  rem * t * 2^e(p/a) / a  >  2^e(below k) / 2
product_rounds_below(p, a, t, k) ==
    /\ division_rounds_down(p, a)
    /\ IF float_exponent(p, a) >= exponent_below(k)
       THEN 2 * division_remainder(p, a) * t * Pow2(float_exponent(p, a) - exponent_below(k)) > a
       ELSE 2 * division_remainder(p, a) * t > a * Pow2(exponent_below(k) - float_exponent(p, a))

\* int(p / a * t) in float arithmetic, a > 0
int_quotient_times(p, a, t) ==
    IF (p * t) % a = 0 /\ (p * t) \div a > 0 /\ product_rounds_below(p, a, t, (p * t) \div a)
    THEN (p * t) \div a - 1
    ELSE (p * t) \div a

\* "corrected_hashrate": int(pool_hash / accepted_solution * total_solutions) if accepted_solution else 0
corrected_hashrate(pool, total_solutions) ==
    IF pool.accepted_solution # 0
    THEN int_quotient_times(pool.pool_hash, pool.accepted_solution, total_solutions)
    ELSE 0

\* format_apool_data / format_solutions_data / format_minerlab_data: the entry of
\* the pool in the snapshot, <<>> when the key is not set
format_pool_data(pool_data, total_solutions) ==
    IF pool_data = <<>> THEN <<>>
    ELSE <<[accepted_solution |-> pool_data[1].accepted_solution,
            pool_hash |-> pool_data[1].pool_hash,
            corrected_hashrate |-> corrected_hashrate(pool_data[1], total_solutions)]>>

\* "average" of pool_hashrate: int() of each average, and the record count
format_average(network_stats_data) ==
    IF network_stats_data = <<>> THEN <<>>
    ELSE LET averages == network_stats_data[1].averages
         IN  <<[average_qli_hashrate |-> RatTrunc(averages.average_qli_hashrate),
                average_apool_hashrate |-> RatTrunc(averages.average_apool_hashrate),
                average_solutions_hashrate |-> RatTrunc(averages.average_solutions_hashrate),
                average_minerlab_hashrate |-> RatTrunc(averages.average_minerlab_hashrate),
                record_count |-> network_stats_data[1].record_count]>>

\* lines 21-67: the eight requests in the order they are made; the log
\* collection after them
requests_of(up, logs, current_time) ==
    fetch(fetch(fetch(fetch(fetch(fetch(fetch(fetch(logs,
        current_time, "TickOverview", up.tick),
        current_time, "Score", up.score # <<>>),
        current_time, "exchange_rate", up.rate),
        current_time, "miner_control", up.idle # <<>>),
        current_time, "apool", up.apool # <<>>),
        current_time, "solutions", up.solutions # <<>>),
        current_time, "minerlab", up.minerlab # <<>>),
        current_time, "Proposal", up.proposal)

\* lines 36-46: total_solutions, 0 when the score source is Absent
total_solutions_of(up) == IF up.score # <<>> THEN up.score[1].total_solutions ELSE 0

\* lines 72-107 (and 109-110 for a payload the build cannot digest)
response_of(up, total_solutions, logs8, network_stats_data) ==
    [result |->
        [status |-> IF up.malformed THEN "error" ELSE "success",
         has_tick |-> up.tick,
         has_rate |-> up.rate,
         has_proposal |-> up.proposal,
         idle |-> IF up.idle # <<>> THEN up.idle[1] ELSE "missing",
         qli_hashrate |-> IF up.score # <<>> THEN <<up.score[1].estimatedIts>> ELSE <<>>,
         average |-> format_average(network_stats_data),
         apool |-> format_pool_data(up.apool, total_solutions),
         solutions |-> format_pool_data(up.solutions, total_solutions),
         minerlab |-> format_pool_data(up.minerlab, total_solutions)],
     logs |-> logs8,
     network_stats_data |-> network_stats_data]

\* the body of get_tool_data (lines 16-110) at clock value current_time:
\* [result, logs, network_stats_data]
build_tool_data(up, samples, logs, current_time) ==
    response_of(up, total_solutions_of(up), requests_of(up, logs, current_time),
                get_network_stats_data(samples, current_time))

\* cache_response: the stored result is returned while now - timestamp < duration
CACHE_DURATION == 300

\* cache = {}: the two keys the program uses (get_tool_data and the endpoint
\* get_tool are both wrapped)
NoCache == [get_tool_data |-> <<>>, get_tool |-> <<>>]

cache_hit_inclusive(entry, current_time) ==
    entry # <<>> /\ current_time - entry[1].timestamp <= CACHE_DURATION

cache_hit(entry, current_time) ==
    entry # <<>> /\ current_time - entry[1].timestamp < CACHE_DURATION

-----------------------------------------------------------------------------
(* calculate_network_stats *)

Procs == {"scheduler", "request"}

NoHashrates == [qli |-> Float(0), apool |-> Float(0), solutions |-> Float(0), minerlab |-> Float(0)]
AllTrue == [qli |-> TRUE, apool |-> TRUE, solutions |-> TRUE, minerlab |-> TRUE]

InitLoc ==
    [tool_data |-> <<>>, network_stats_data |-> <<>>, current_time |-> 0,
     last_record |-> <<>>, is_idle |-> "false", hashrate_data |-> NoHashrates,
     estimated_its |-> Float(0), validation_results |-> AllTrue, period_start |-> 0,
     deleted_count |-> 0]

\* truth value of a JSON true / false / null
Truthy(v) == v = "true"

interval_guard_200(last_record, current_time) ==
    last_record # <<>> /\ current_time - last_record[1].timestamp < 200

\* lines 105-112: a previous Sample less than 300 s old
interval_guard(last_record, current_time) ==
    last_record # <<>> /\ current_time - last_record[1].timestamp < 300

get_idle_wrong_key(tool_data) == "false"

\* line 118: tool_data.get('data', {}).get('idle', False)
get_idle(tool_data) == IF tool_data.idle = "missing" THEN "false" ELSE tool_data.idle

recovery_guard_400(last_record, current_time) ==
    /\ last_record # <<>>
    /\ Truthy(last_record[1].was_idle)
    /\ current_time - last_record[1].timestamp < 400

\* lines 128-131: the previous Sample was idle and is less than 300 s old
recovery_guard(last_record, current_time) ==
    /\ last_record # <<>>
    /\ Truthy(last_record[1].was_idle)
    /\ current_time - last_record[1].timestamp < 300

get_corrected_pool_hash(entry) == IF entry = <<>> THEN 0 ELSE entry[1].pool_hash

\* x.get('corrected_hashrate', 0) of tool_data.get('data', {}).get(pool, {})
get_corrected(entry) == IF entry = <<>> THEN 0 ELSE entry[1].corrected_hashrate

pool_check_none(validation_results, hashrate_data) == validation_results

\* lines 185-193: the validation map after the pool check
pool_check(validation_results, hashrate_data) ==
    [validation_results EXCEPT
        !.apool = ~RatLE(hashrate_data.apool, Float(0)),
        !.solutions = ~RatLE(hashrate_data.solutions, Float(0)),
        !.minerlab = ~RatLE(hashrate_data.minerlab, Float(0))]

all_valid_qli_only(validation_results) == validation_results.qli

\* all(validation_results.values())
all_valid(validation_results) ==
    /\ validation_results.qli
    /\ validation_results.apool
    /\ validation_results.solutions
    /\ validation_results.minerlab

\* lines 214-219: the rollover condition
rollover_due(last_record, period_start) ==
    last_record # <<>> /\ period_start > last_record[1].period_start

\* lines 184-225, from the pool check to the rollover decision; l holds the
\* locals after the QLI check
after_qli_check(l, logs, t) ==
    LET some_pool_bad ==
            \/ RatLE(l.hashrate_data.apool, Float(0))
            \/ RatLE(l.hashrate_data.solutions, Float(0))
            \/ RatLE(l.hashrate_data.minerlab, Float(0))
        logs1 == IF some_pool_bad
                 THEN log_network_stats_event(logs, t, "warning", "pool", <<l.hashrate_data>>)
                 ELSE logs
        validation_results ==
            IF some_pool_bad THEN pool_check(l.validation_results, l.hashrate_data)
            ELSE l.validation_results
        period_start == period_start_calc(l.current_time)
    IN  IF ~all_valid(validation_results)
        THEN [pc |-> "idle",
              logs |-> log_network_stats_event(logs1, t, "validation", "abnormal",
                          <<[hashrates |-> l.hashrate_data, validation_results |-> validation_results]>>),
              loc |-> [l EXCEPT !.validation_results = validation_results]]
        ELSE [pc |-> IF rollover_due(l.last_record, period_start) THEN "rollover" ELSE "insert",
              logs |-> logs1,
              loc |-> [l EXCEPT !.validation_results = validation_results,
                                !.period_start = period_start]]

\* lines 98-170: from the read of the latest Sample to the QLI check
calculate_read(l0, last_record, logs, t) ==
    LET tool_data == l0.tool_data[1]
        is_idle == get_idle(tool_data)
        l1 == [l0 EXCEPT !.current_time = t, !.last_record = last_record, !.is_idle = is_idle]
    IN  IF mongo # "up"
        \* find_one raises; the except branch of lines 249-252 logs it
        THEN [pc |-> "idle", loc |-> [l0 EXCEPT !.current_time = t],
              logs |-> log_network_stats_event(logs, t, "error", "calculating", NoData)]
        ELSE IF interval_guard(last_record, t)
        THEN [pc |-> "idle", loc |-> l1,
              logs |-> log_network_stats_event(logs, t, "skip", "interval", NoData)]
        ELSE IF Truthy(is_idle)
        THEN [pc |-> "idle", loc |-> l1,
              logs |-> log_network_stats_event(logs, t, "skip", "idle", NoData)]
        ELSE IF recovery_guard(last_record, t)
        THEN [pc |-> "idle", loc |-> l1,
              logs |-> log_network_stats_event(logs, t, "skip", "idle recovery", NoData)]
        ELSE IF tool_data.qli_hashrate = <<>>
        \* float(None) raises; the except branch of lines 249-252 logs it
        THEN [pc |-> "idle", loc |-> l1,
              logs |-> log_network_stats_event(logs, t, "error", "calculating", NoData)]
        ELSE
            LET hashrate_data ==
                    [qli |-> Float(tool_data.qli_hashrate[1]),
                     apool |-> Float(get_corrected(tool_data.apool)),
                     solutions |-> Float(get_corrected(tool_data.solutions)),
                     minerlab |-> Float(get_corrected(tool_data.minerlab))]
                l2 == [l1 EXCEPT !.hashrate_data = hashrate_data,
                                 !.estimated_its = hashrate_data.qli,
                                 !.validation_results = AllTrue]
            IN  IF RatLE(hashrate_data.qli, Float(0))
                THEN [pc |-> "qli",
                      loc |-> [l2 EXCEPT !.validation_results.qli = FALSE],
                      logs |-> log_network_stats_event(logs, t, "warning", "qli", NoData)]
                ELSE after_qli_check(l2, logs, t)

recent_qli_all(samples) ==
    qli_values(Reverse(sort_ascending(
        SelectSeq(samples, LAMBDA r : RatLT(Float(0), r.qli_hashrate)))))

\* find({'qli_hashrate': {'$gt': 0}}, ...).sort('timestamp', -1).limit(5)
recent_qli(samples) ==
    qli_values(limit(Reverse(sort_ascending(
        SelectSeq(samples, LAMBDA r : RatLT(Float(0), r.qli_hashrate)))), 5))

\* lines 172-202: the substitution of the QLI reading, then the rest
calculate_qli(l0, samples, logs, t) ==
    LET recent_records == recent_qli(samples)
    IN  IF mongo # "up"
        \* find raises; the except branch of lines 249-252 logs it
        THEN [pc |-> "idle", loc |-> l0,
              logs |-> log_network_stats_event(logs, t, "error", "calculating", NoData)]
        ELSE IF recent_records # <<>>
        THEN after_qli_check(
                [l0 EXCEPT !.estimated_its = RatMean(recent_records),
                           !.validation_results.qli = TRUE],
                log_network_stats_event(logs, t, "info", "qli average", NoData), t)
        ELSE after_qli_check(l0, logs, t)

\* lines 227-235
new_record(l) ==
    [timestamp |-> l.current_time,
     period_start |-> l.period_start,
     qli_hashrate |-> l.estimated_its,
     apool_hashrate |-> l.hashrate_data.apool,
     solutions_hashrate |-> l.hashrate_data.solutions,
     minerlab_hashrate |-> l.hashrate_data.minerlab,
     was_idle |-> l.is_idle]

-----------------------------------------------------------------------------
(* The callers: update_network_stats on the scheduler and in the forced     *)
(* update handler                                                           *)

\* the clock at the start of a behaviour: 100 s before a Wednesday 12:00 UTC
StartClock == FirstWednesdayNoon + 3 * Week - 100

\* lines 24-26 of cache_response: the result is stored with the time of the call
cache_fill(built, t) ==
    [result |-> built.result, logs |-> built.logs,
     cache |-> <<[result |-> built.result, timestamp |-> t]>>,
     network_stats_data |-> built.network_stats_data]

\* get_tool_data() behind cache_response: the possible [result, logs, cache,
\* network_stats_data] of one call, one per answer of the upstream sources
get_tool_data(Ups, logs, t) ==
    IF cache_hit(cache.get_tool_data, t)
    THEN {[result |-> cache.get_tool_data[1].result, logs |-> logs,
           cache |-> cache.get_tool_data, network_stats_data |-> <<>>]}
    ELSE {cache_fill(build_tool_data(up, network_stats, logs, t), t) : up \in Ups}

\* update_network_stats, lines 37-63 (for the request process after
\* force_update_network_stats, lines 253-264, found the database reachable):
\* the 'info' event, the snapshot and the checks of it
update_network_stats(p, Ups, maxCycles, serial, cadence) ==
    /\ pc[p] = "idle"
    /\ p = "request" => mongo # "down"
    /\ cycles < maxCycles
    /\ serial => \A q \in Procs : pc[q] = "idle"
    /\ cadence => cycles = advances
    /\ LET logs1 == log_network_stats_event(network_stats_logs, now, "info", "triggered", NoData)
       IN  \E got \in get_tool_data(Ups, logs1, now) :
              /\ cache' = [cache EXCEPT !.get_tool_data = got.cache]
              /\ IF got.result.status # "success"
                 THEN /\ network_stats_logs' =
                            log_network_stats_event(got.logs, now, "error", "format", NoData)
                      /\ pc' = pc
                      /\ loc' = [loc EXCEPT ![p] = [InitLoc EXCEPT
                                    !.network_stats_data = got.network_stats_data]]
                 ELSE /\ network_stats_logs' = got.logs
                      /\ pc' = [pc EXCEPT ![p] = "calc"]
                      /\ loc' = [loc EXCEPT ![p] = [InitLoc EXCEPT
                                    !.tool_data = <<got.result>>,
                                    !.network_stats_data = got.network_stats_data]]
    /\ cycles' = cycles + 1
    /\ UNCHANGED <<now, network_stats, advances, call, mongo>>

\* calculate_network_stats up to its next operation on the Samples collection
calculate_network_stats_read(p) ==
    /\ pc[p] = "calc"
    /\ \E last_record \in (IF network_stats = <<>> THEN {<<>>}
                           ELSE {<<r>> : r \in find_latest(network_stats)}) :
          LET r == calculate_read(loc[p], last_record, network_stats_logs, now)
          IN  /\ pc' = [pc EXCEPT ![p] = r.pc]
              /\ loc' = [loc EXCEPT ![p] = r.loc]
              /\ network_stats_logs' = r.logs
    /\ UNCHANGED <<now, network_stats, cache, cycles, advances, call, mongo>>

calculate_network_stats_qli(p) ==
    /\ pc[p] = "qli"
    /\ LET r == calculate_qli(loc[p], network_stats, network_stats_logs, now)
       IN  /\ pc' = [pc EXCEPT ![p] = r.pc]
           /\ loc' = [loc EXCEPT ![p] = r.loc]
           /\ network_stats_logs' = r.logs
    /\ UNCHANGED <<now, network_stats, cache, cycles, advances, call, mongo>>

calculate_network_stats_rollover_current_period(p) ==
    /\ pc[p] = "rollover"
    /\ IF mongo # "up"
       THEN /\ network_stats' = network_stats
            /\ network_stats_logs' =
                  log_network_stats_event(network_stats_logs, now, "error", "calculating", NoData)
            /\ loc' = loc
            /\ pc' = [pc EXCEPT ![p] = "idle"]
       ELSE /\ network_stats' = delete_many_lt(network_stats, loc[p].period_start)
            /\ network_stats_logs' = network_stats_logs
            /\ loc' = [loc EXCEPT ![p].deleted_count = Len(network_stats) - Len(network_stats')]
            /\ pc' = [pc EXCEPT ![p] = "insert"]
    /\ UNCHANGED <<now, cache, cycles, advances, call, mongo>>

\* lines 221-224: old_records = delete_many(timestamp < latest_period_start);
\* a delete_many that raises ends the cycle in the except branch of lines 249-252
calculate_network_stats_rollover(p) ==
    /\ pc[p] = "rollover"
    /\ IF mongo # "up"
       THEN /\ network_stats' = network_stats
            /\ network_stats_logs' =
                  log_network_stats_event(network_stats_logs, now, "error", "calculating", NoData)
            /\ loc' = loc
            /\ pc' = [pc EXCEPT ![p] = "idle"]
       ELSE /\ network_stats' = delete_many_lt(network_stats, loc[p].last_record[1].period_start)
            /\ network_stats_logs' = network_stats_logs
            /\ loc' = [loc EXCEPT ![p].deleted_count = Len(network_stats) - Len(network_stats')]
            /\ pc' = [pc EXCEPT ![p] = "insert"]
    /\ UNCHANGED <<now, cache, cycles, advances, call, mongo>>

calculate_network_stats_insert_replace(p) ==
    /\ pc[p] = "insert"
    /\ network_stats' =
          IF network_stats = <<>> THEN <<new_record(loc[p])>>
          ELSE [network_stats EXCEPT ![Len(network_stats)] = new_record(loc[p])]
    /\ network_stats_logs' =
          log_network_stats_event(network_stats_logs, now, "success", "recorded",
              <<[hashrates |-> loc[p].hashrate_data,
                 validation_results |-> loc[p].validation_results]>>)
    /\ pc' = [pc EXCEPT ![p] = "idle"]
    /\ UNCHANGED <<now, cache, loc, cycles, advances, call, mongo>>

\* lines 237-241; an insert_one that raises ends the cycle in the except branch
\* of lines 249-252
calculate_network_stats_insert(p) ==
    /\ pc[p] = "insert"
    /\ IF mongo # "up"
       THEN /\ network_stats' = network_stats
            /\ network_stats_logs' =
                  log_network_stats_event(network_stats_logs, now, "error", "calculating", NoData)
       ELSE /\ network_stats' = Append(network_stats, new_record(loc[p]))
            /\ network_stats_logs' =
                  log_network_stats_event(network_stats_logs, now, "success", "recorded",
                      <<[hashrates |-> loc[p].hashrate_data,
                         validation_results |-> loc[p].validation_results]>>)
    /\ pc' = [pc EXCEPT ![p] = "idle"]
    /\ UNCHANGED <<now, cache, loc, cycles, advances, call, mongo>>

\* the clock moves on
Advance(Deltas, maxAdvances, betweenCycles, cadence) ==
    /\ advances < maxAdvances
    /\ betweenCycles => \A q \in Procs : pc[q] = "idle"
    /\ cadence => advances < cycles
    /\ \E d \in Deltas : now' = now + d
    /\ advances' = advances + 1
    /\ UNCHANGED <<network_stats, network_stats_logs, cache, pc, loc, cycles, call, mongo>>

Init ==
    /\ now = StartClock
    /\ network_stats = <<>>
    /\ network_stats_logs = <<>>
    /\ cache = NoCache
    /\ pc = [p \in Procs |-> "idle"]
    /\ loc = [p \in Procs |-> InitLoc]
    /\ cycles = 0
    /\ advances = 0
    /\ call = <<>>
    /\ mongo = "up"

Deltas == {200, 300, Week}
Upstreams == {UpBase, UpIdle, UpQliZero, UpApoolAbsent}
UpstreamsOverlap == {UpBase, UpQliZero}
UpstreamsCron == {UpBase, UpSpike, UpQliZero}

Steps(Ps) ==
    \E p \in Ps :
        \/ calculate_network_stats_read(p)
        \/ calculate_network_stats_qli(p)
        \/ calculate_network_stats_rollover(p)
        \/ calculate_network_stats_insert(p)

\* the scheduler and the forced-update handler run as the host runs them:
\* a forced update may overlap a scheduled cycle
Next ==
    \/ \E p \in Procs : update_network_stats(p, UpstreamsOverlap, MaxCyclesOverlap, FALSE, FALSE)
    \/ Steps(Procs)
    \/ Advance(Deltas, MaxAdvances, FALSE, FALSE)

Spec == Init /\ [][Next]_vars

\* one evaluation cycle at a time, the clock moving between cycles
NextSerial ==
    \/ \E p \in Procs : update_network_stats(p, Upstreams, MaxCycles, TRUE, FALSE)
    \/ Steps(Procs)
    \/ Advance(Deltas, MaxAdvances, TRUE, FALSE)

SpecSerial == Init /\ [][NextSerial]_vars

\* one cycle at a time on answers in which a source is absent or carries no
\* boolean idle
UpstreamsSources ==
    {UpBase, UpIdle, UpIdleNull, UpQliZero, UpApoolAbsent, UpScoreAbsent, UpMinerlabNoSolutions}

NextSources ==
    \/ \E p \in Procs : update_network_stats(p, UpstreamsSources, MaxCyclesSources, TRUE, FALSE)
    \/ Steps(Procs)
    \/ Advance({200, 300}, MaxAdvances, TRUE, FALSE)

SpecSources == Init /\ [][NextSources]_vars

\* the scheduler alone, one cycle every 300 s
NextCron ==
    \/ update_network_stats("scheduler", UpstreamsCron, MaxCyclesAgg, TRUE, TRUE)
    \/ Steps({"scheduler"})
    \/ Advance({300}, MaxCyclesAgg, TRUE, TRUE)

SpecCron == Init /\ [][NextCron]_vars

-----------------------------------------------------------------------------
(* The period anchor applied in isolation *)

\* instants around midnight and noon of AnchorDays consecutive days
AnchorInstants ==
    {(StartClock \div Day) * Day + d * Day + o :
        d \in 0..(AnchorDays - 1), o \in {0, Noon - 1, Noon, Noon + 1, Day - 1}}

InitAnchor ==
    /\ now \in AnchorInstants
    /\ network_stats = <<>>
    /\ network_stats_logs = <<>>
    /\ cache = NoCache
    /\ pc = [p \in Procs |-> "idle"]
    /\ loc = [p \in Procs |-> InitLoc]
    /\ cycles = 0
    /\ advances = 0
    /\ call = <<>>
    /\ mongo = "up"

\* the three paths compute their period_start at the same instant
period_start_paths ==
    /\ call = <<>>
    /\ call' = <<[log |-> period_start_log(now),
                  calc |-> period_start_calc(now),
                  agg |-> period_start_agg(now)]>>
    /\ UNCHANGED <<now, network_stats, network_stats_logs, cache, pc, loc, cycles, advances, mongo>>

NextAnchor == period_start_paths

SpecAnchor == InitAnchor /\ [][NextAnchor]_vars

-----------------------------------------------------------------------------
(* The read endpoints and a database that may fail *)

\* datetime.isoformat()
isoformat(t) == [isoformat |-> t]

\* get_network_stats_logs(limit): find({}, {'_id': 0}).sort('timestamp', -1)
\* .limit(n) with n >= 1, the two instants of each entry as ISO strings; [] when
\* the find raises (lines 353-355)
get_network_stats_logs(logs, n) ==
    IF mongo = "down" THEN <<>>
    ELSE LET found == limit(Reverse(sort_ascending(logs)), n)
         IN  [i \in 1..Len(found) |->
                 [found[i] EXCEPT !.timestamp = isoformat(@), !.period_start = isoformat(@)]]

\* check_db_connection(): the ping of the server
check_db_connection == mongo # "down"

\* the database fails or recovers
mongo_changes ==
    /\ advances < MaxAdvances
    /\ mongo' \in {"up", "down", "network_stats_failing"} \ {mongo}
    /\ advances' = advances + 1
    /\ UNCHANGED <<now, network_stats, network_stats_logs, cache, pc, loc, cycles, call>>

\* POST /api/network-stats/update when the ping fails (lines 255-261)
force_update_network_stats_unreachable ==
    /\ pc["request"] = "idle"
    /\ ~check_db_connection
    /\ network_stats_logs' =
          log_network_stats_event(network_stats_logs, now, "error", "connection check", NoData)
    /\ call' = <<[endpoint |-> "update", status |-> "error", mongo |-> mongo]>>
    /\ UNCHANGED <<now, network_stats, cache, pc, loc, cycles, advances, mongo>>

\* GET /api/qubic/tool: get_tool behind its own cache_response, around
\* get_tool_data behind cache_response
get_tool(Ups) ==
    /\ \A q \in Procs : pc[q] = "idle"
    /\ \E got \in (IF cache_hit(cache.get_tool, now)
                   THEN {[result |-> cache.get_tool[1].result, logs |-> network_stats_logs,
                          cache |-> cache, cached |-> TRUE]}
                   ELSE {[result |-> g.result, logs |-> g.logs,
                          cache |-> [get_tool_data |-> g.cache,
                                     get_tool |-> <<[result |-> g.result, timestamp |-> now]>>],
                          cached |-> cache_hit(cache.get_tool_data, now)]
                            : g \in get_tool_data(Ups, network_stats_logs, now)}) :
          /\ call' = <<[endpoint |-> "tool", status |-> got.result.status,
                        average |-> got.result.average, cached |-> got.cached,
                        mongo |-> mongo]>>
          /\ cache' = got.cache
          /\ network_stats_logs' = got.logs
    /\ UNCHANGED <<now, network_stats, pc, loc, cycles, advances, mongo>>

\* a request for the logs is between its connection check and its read
logs_request_checked ==
    call # <<>> /\ call[1].endpoint = "logs" /\ call[1].status = "checked"

\* GET /api/network-stats/logs, lines 281-286: the connection check
get_logs_check ==
    /\ \A q \in Procs : pc[q] = "idle"
    /\ ~logs_request_checked
    /\ call' = <<[endpoint |-> "logs",
                  status |-> IF check_db_connection THEN "checked" ELSE "error",
                  logs |-> <<>>, mongo |-> mongo]>>
    /\ UNCHANGED <<now, network_stats, network_stats_logs, cache, pc, loc, cycles, advances, mongo>>

\* lines 288-292: the read and the response
get_logs_read ==
    /\ logs_request_checked
    /\ call' = <<[endpoint |-> "logs", status |-> "success",
                  logs |-> get_network_stats_logs(network_stats_logs, 100), mongo |-> mongo]>>
    /\ UNCHANGED <<now, network_stats, network_stats_logs, cache, pc, loc, cycles, advances, mongo>>

\* get_network_stats_logs(limit) called on its own
get_network_stats_logs_call ==
    /\ \A q \in Procs : pc[q] = "idle"
    /\ ~logs_request_checked
    /\ \E n \in 1..MaxLimit :
          call' = <<[endpoint |-> "get_network_stats_logs", status |-> "returned", limit |-> n,
                     logs |-> get_network_stats_logs(network_stats_logs, n),
                     seen |-> network_stats_logs, mongo |-> mongo]>>
    /\ UNCHANGED <<now, network_stats, network_stats_logs, cache, pc, loc, cycles, advances, mongo>>

UpstreamsStore == {UpBase, UpQliZero, UpMalformed}

\* the cycles run while the database fails and recovers; the calls from
\* outside are explored from every state the cycles reach
NextStore ==
    \/ \E p \in Procs :
          call = <<>> /\ update_network_stats(p, UpstreamsStore, MaxCyclesStore, TRUE, FALSE)
    \/ \E p \in Procs : call = <<>> /\ calculate_network_stats_read(p)
    \/ \E p \in Procs : call = <<>> /\ calculate_network_stats_qli(p)
    \/ \E p \in Procs : call = <<>> /\ calculate_network_stats_rollover(p)
    \/ \E p \in Procs : call = <<>> /\ calculate_network_stats_insert(p)
    \/ call = <<>> /\ Advance({300}, MaxAdvances, TRUE, FALSE)
    \/ mongo_changes
    \/ force_update_network_stats_unreachable
    \/ get_tool(UpstreamsStore)
    \/ get_logs_check
    \/ get_logs_read
    \/ get_network_stats_logs_call

SpecStore == Init /\ [][NextStore]_vars

-----------------------------------------------------------------------------
(* safe_request applied in isolation *)

\* the sources get_tool_data asks
Urls == {"TickOverview", "Score", "exchange_rate", "miner_control",
         "apool", "solutions", "minerlab", "Proposal"}
Methods == {"GET", "POST"}

\* the log collection before the request: empty, or holding the 'info' event
\* of a cycle 300 s earlier
LogsBefore ==
    {<<>>, log_network_stats_event(<<>>, StartClock - 300, "info", "triggered", NoData)}

\* everything but the clock, the log collection and the call at rest
AtRest ==
    /\ network_stats = <<>>
    /\ cache = NoCache
    /\ pc = [p \in Procs |-> "idle"]
    /\ loc = [p \in Procs |-> InitLoc]
    /\ cycles = 0
    /\ advances = 0

InitFetch ==
    /\ now = StartClock
    /\ mongo = "up"
    /\ network_stats_logs \in LogsBefore
    /\ AtRest
    /\ call \in {<<[url |-> url, method |-> method, outcome |-> outcome,
                     logs_before |-> network_stats_logs, result |-> <<>>]>> :
                    url \in Urls, method \in Methods, outcome \in Outcomes}

safe_request_call ==
    /\ call[1].result = <<>>
    /\ \E r \in safe_request(network_stats_logs, now, call[1].url, call[1].method,
                               call[1].outcome) :
          /\ call' = <<[call[1] EXCEPT !.result = <<r.value>>]>>
          /\ network_stats_logs' = r.logs
    /\ UNCHANGED <<now, network_stats, cache, pc, loc, cycles, advances, mongo>>

NextFetch == safe_request_call

SpecFetch == InitFetch /\ [][NextFetch]_vars

-----------------------------------------------------------------------------
(* get_tool_data applied in isolation, for every set of Absent sources *)

\* the answers up with the sources of the set absent turned Absent
Mask(up, absent) ==
    [up EXCEPT
        !.tick = @ /\ "TickOverview" \notin absent,
        !.score = IF "Score" \in absent THEN <<>> ELSE @,
        !.rate = @ /\ "exchange_rate" \notin absent,
        !.idle = IF "miner_control" \in absent THEN <<>> ELSE @,
        !.apool = IF "apool" \in absent THEN <<>> ELSE @,
        !.solutions = IF "solutions" \in absent THEN <<>> ELSE @,
        !.minerlab = IF "minerlab" \in absent THEN <<>> ELSE @,
        !.proposal = @ /\ "Proposal" \notin absent]

InitSnapshot ==
    /\ now = StartClock
    /\ mongo = "up"
    /\ network_stats_logs = <<>>
    /\ AtRest
    /\ call \in {<<[absent |-> absent, result |-> <<>>]>> : absent \in SUBSET Urls}

get_tool_data_call ==
    /\ call[1].result = <<>>
    /\ \E got \in get_tool_data({Mask(UpBase, call[1].absent)}, network_stats_logs, now) :
          /\ call' = <<[call[1] EXCEPT !.result = <<got.result>>]>>
          /\ cache' = [cache EXCEPT !.get_tool_data = got.cache]
          /\ network_stats_logs' = got.logs
    /\ UNCHANGED <<now, network_stats, pc, loc, cycles, advances, mongo>>

NextSnapshot == get_tool_data_call

SpecSnapshot == InitSnapshot /\ [][NextSnapshot]_vars

-----------------------------------------------------------------------------
(* One evaluation against a store found as it is at start-up *)

UpAllZero == Present(Score(0, 10), <<"false">>, Pool(0, 10), Pool(0, 10), Pool(0, 10))

UpstreamsEval == {UpBase, UpIdle, UpAllZero}

\* a Sample as lines 227-235 write it, found in the collection at start-up
Sample(t, was_idle, qli) ==
    [timestamp |-> t,
     period_start |-> period_start_calc(t),
     qli_hashrate |-> Float(qli),
     apool_hashrate |-> Float(10),
     solutions_hashrate |-> Float(10),
     minerlab_hashrate |-> Float(10),
     was_idle |-> was_idle]

\* the network_stats collection at start-up: empty, or written by an earlier
\* run of the service or put there by hand, the latest Sample at StartClock
StoresEval ==
    {<<>>,
     <<Sample(StartClock, "true", 10)>>,
     <<Sample(StartClock, "false", 10)>>,
     <<Sample(StartClock - 300, "false", 12), Sample(StartClock, "true", 10)>>}

\* seconds between the latest Sample and the first evaluation
ElapsedEval == {200, 301}

InitEval ==
    /\ now \in {StartClock + d : d \in ElapsedEval}
    /\ network_stats \in StoresEval
    /\ network_stats_logs = <<>>
    /\ cache = NoCache
    /\ pc = [p \in Procs |-> "idle"]
    /\ loc = [p \in Procs |-> InitLoc]
    /\ cycles = 0
    /\ advances = 0
    /\ call = <<>>
    /\ mongo = "up"

NextEval ==
    \/ \E p \in Procs : update_network_stats(p, UpstreamsEval, MaxCyclesEval, TRUE, FALSE)
    \/ \E p \in Procs : calculate_network_stats_read(p)
    \/ \E p \in Procs : calculate_network_stats_qli(p)
    \/ \E p \in Procs : calculate_network_stats_rollover(p)
    \/ \E p \in Procs : calculate_network_stats_insert(p)
    \/ Advance({101, 300}, MaxAdvances, TRUE, FALSE)

SpecEval == InitEval /\ [][NextEval]_vars

-----------------------------------------------------------------------------
(* Evaluations cut off by a restart of the service, and the readers *)

UpstreamsRestart == {UpBase, UpIdle, UpQliZero}

\* the network_stats collection at start-up: empty, one Sample, or a Sample of
\* the period before that of the latest Sample
StoresRestart ==
    {<<>>,
     <<Sample(StartClock, "false", 10)>>,
     <<Sample(StartClock - Week, "false", 12), Sample(StartClock, "false", 8)>>}

InitRestart ==
    /\ now \in {StartClock + d : d \in ElapsedEval}
    /\ network_stats \in StoresRestart
    /\ network_stats_logs = <<>>
    /\ cache = NoCache
    /\ pc = [p \in Procs |-> "idle"]
    /\ loc = [p \in Procs |-> InitLoc]
    /\ cycles = 0
    /\ advances = 0
    /\ call = <<>>
    /\ mongo = "up"

\* the service is stopped in the middle of an evaluation and started again:
\* the two collections stay, the threads, their locals and the cache of
\* utils.py line 9 do not
crash ==
    /\ \E p \in Procs : pc[p] # "idle"
    /\ pc' = [p \in Procs |-> "idle"]
    /\ loc' = [p \in Procs |-> InitLoc]
    /\ cache' = NoCache
    /\ UNCHANGED <<now, network_stats, network_stats_logs, cycles, advances, call, mongo>>

NextRestart ==
    \/ \E p \in Procs :
          call = <<>> /\ update_network_stats(p, UpstreamsRestart, MaxCyclesRestart, TRUE, FALSE)
    \/ \E p \in Procs : call = <<>> /\ calculate_network_stats_read(p)
    \/ \E p \in Procs : call = <<>> /\ calculate_network_stats_qli(p)
    \/ \E p \in Procs : call = <<>> /\ calculate_network_stats_rollover(p)
    \/ \E p \in Procs : call = <<>> /\ calculate_network_stats_insert(p)
    \/ call = <<>> /\ Advance({300}, MaxAdvances, TRUE, FALSE)
    \/ call = <<>> /\ crash
    \/ get_network_stats_logs_call

SpecRestart == InitRestart /\ [][NextRestart]_vars

-----------------------------------------------------------------------------
(* The pool normalizers applied in isolation *)

\* lines 112-133
format_apool_data(apool_data, total_solutions) ==
    [accepted_solution |-> apool_data.accepted_solution,
     pool_hash |-> apool_data.pool_hash,
     corrected_hashrate |->
        corrected_hashrate(Pool(apool_data.pool_hash, apool_data.accepted_solution)[1],
                           total_solutions)]

\* lines 135-159: accepted_solution = solo_solutions + pplns_solutions
format_solutions_data(solutions_data, total_solutions) ==
    [accepted_solution |-> solutions_data.solo + solutions_data.pplns,
     solo_solutions |-> solutions_data.solo,
     pplns_solutions |-> solutions_data.pplns,
     pool_hash |-> solutions_data.iterrate,
     corrected_hashrate |->
        corrected_hashrate(Pool(solutions_data.iterrate,
                                solutions_data.solo + solutions_data.pplns)[1],
                           total_solutions)]

\* lines 161-180
format_minerlab_data(minerlab_data, total_solutions) ==
    [accepted_solution |-> minerlab_data.currentEpochSolutions,
     pool_hash |-> minerlab_data.currentIts,
     corrected_hashrate |->
        corrected_hashrate(Pool(minerlab_data.currentIts, minerlab_data.currentEpochSolutions)[1],
                           total_solutions)]

PplnsSolutions == {0, 1}

\* the payloads of the three pools and the network's total
PoolInputs ==
    {[normalizer |-> "apool", total_solutions |-> t,
      data |-> [pool_hash |-> h, accepted_solution |-> a]] :
        h \in 0..MaxPoolHash, a \in 0..MaxSolutions, t \in 0..MaxSolutions}
    \cup {[normalizer |-> "solutions", total_solutions |-> t,
           data |-> [iterrate |-> h, solo |-> a, pplns |-> b]] :
        h \in 0..MaxPoolHash, a \in 0..(MaxSolutions - 1), b \in PplnsSolutions,
        t \in 0..MaxSolutions}
    \cup {[normalizer |-> "minerlab", total_solutions |-> t,
           data |-> [currentIts |-> h, currentEpochSolutions |-> a]] :
        h \in 0..MaxPoolHash, a \in 0..MaxSolutions, t \in 0..MaxSolutions}

InitPool ==
    /\ now = StartClock
    /\ mongo = "up"
    /\ network_stats_logs = <<>>
    /\ AtRest
    /\ call \in {<<[input |-> i, entry |-> <<>>]>> : i \in PoolInputs}

format_pool_call ==
    /\ call[1].entry = <<>>
    /\ call' = <<[call[1] EXCEPT !.entry =
            <<CASE call[1].input.normalizer = "apool" ->
                     format_apool_data(call[1].input.data, call[1].input.total_solutions)
                [] call[1].input.normalizer = "solutions" ->
                     format_solutions_data(call[1].input.data, call[1].input.total_solutions)
                [] OTHER ->
                     format_minerlab_data(call[1].input.data, call[1].input.total_solutions)>>]>>
    /\ UNCHANGED <<now, network_stats, network_stats_logs, cache, pc, loc, cycles, advances, mongo>>

NextPool == format_pool_call

SpecPool == InitPool /\ [][NextPool]_vars

-----------------------------------------------------------------------------
(* update_token: the login with its retries, then the environment variable  *)
(* of the deployment platform                                               *)

\* for attempt in range(3)
login_attempts == 3
\* time.sleep(2)
login_retry_delay == 2

\* what one requests.post to Auth/Login can come to: a decoded answer with a
\* new token, with the current token, or without a token; a
\* RequestException (connection error, timeout, raise_for_status); a body
\* that response.json() cannot decode
LoginOutcomes == {"new_token", "same_token", "no_token", "request_exception", "undecodable"}
LoginAnswers == {"new_token", "same_token", "no_token"}

\* the environment of the process: QUBIC_API_KEY, the four required
\* variables, VERCEL_DEPLOY_HOOK_URL
TokenEnvs ==
    [current_token : {"", "old"}, missing_vars : BOOLEAN, deploy_hook_url : BOOLEAN]

TokenCall(env) ==
    [endpoint |-> "update_token", env |-> env, pc |-> "start", attempt |-> 0,
     attempts |-> <<>>, result |-> "", env_calls |-> <<>>, existing_env |-> FALSE,
     deployment_triggered |-> FALSE, response |-> <<>>]

\* lines 241-248
token_error(c) == [c EXCEPT !.pc = "done", !.response = <<[success |-> FALSE, status |-> 500]>>]

InitToken ==
    /\ now = StartClock
    /\ mongo = "up"
    /\ network_stats_logs = <<>>
    /\ AtRest
    /\ call \in {<<TokenCall(env)>> : env \in TokenEnvs}

\* lines 92-102: the checks of the environment
update_token_start ==
    /\ call[1].pc = "start"
    /\ call' = <<IF call[1].env.current_token = "" \/ call[1].env.missing_vars
                 THEN token_error(call[1])
                 ELSE [call[1] EXCEPT !.pc = "login"]>>
    /\ UNCHANGED <<now, network_stats, network_stats_logs, cache, pc, loc, cycles, advances, mongo>>

\* the except branch of lines 127-131 for attempt c.attempt
login_failed(c) ==
    IF c.attempt = login_attempts - 1 THEN token_error(c) ELSE [c EXCEPT !.pc = "sleep"]

\* lines 117-130: one pass of the loop up to break, raise or sleep.  Whether
\* the error of response.json() is a RequestException depends on the version
\* of the requests library: it is retried, or it leaves the loop for the
\* handler of lines 241-248.
update_token_login ==
    /\ call[1].pc = "login"
    /\ \E outcome \in LoginOutcomes :
          LET c == [call[1] EXCEPT !.attempts = Append(@, [outcome |-> outcome, at |-> now])]
          IN  call' \in
                CASE outcome \in LoginAnswers ->
                        {<<[c EXCEPT !.pc = "token", !.result = outcome]>>}
                  [] outcome = "request_exception" -> {<<login_failed(c)>>}
                  [] OTHER -> {<<login_failed(c)>>, <<token_error(c)>>}
    /\ UNCHANGED <<now, network_stats, network_stats_logs, cache, pc, loc, cycles, advances, mongo>>

update_token_sleep_doubling ==
    /\ call[1].pc = "sleep"
    /\ now' = now + login_retry_delay * (call[1].attempt + 1)
    /\ call' = <<[call[1] EXCEPT !.pc = "login", !.attempt = @ + 1]>>
    /\ UNCHANGED <<network_stats, network_stats_logs, cache, pc, loc, cycles, advances, mongo>>

\* line 131, then the next pass of the loop
update_token_sleep ==
    /\ call[1].pc = "sleep"
    /\ now' = now + login_retry_delay
    /\ call' = <<[call[1] EXCEPT !.pc = "login", !.attempt = @ + 1]>>
    /\ UNCHANGED <<network_stats, network_stats_logs, cache, pc, loc, cycles, advances, mongo>>

\* lines 133-147
update_token_token ==
    /\ call[1].pc = "token"
    /\ call' = <<CASE call[1].result = "no_token" -> token_error(call[1])
                   [] call[1].result = "same_token" ->
                        [call[1] EXCEPT !.pc = "done",
                                        !.response = <<[success |-> TRUE, status |-> 200]>>]
                   [] OTHER -> [call[1] EXCEPT !.pc = "env_check"]>>
    /\ UNCHANGED <<now, network_stats, network_stats_logs, cache, pc, loc, cycles, advances, mongo>>

\* lines 160-179: requests.get of the project's environment variables
update_token_env_check ==
    /\ call[1].pc = "env_check"
    /\ \E answer \in {"existing", "none", "failed"} :
          LET c == [call[1] EXCEPT !.env_calls = Append(@, "get")]
          IN  call' = <<IF answer = "failed" THEN token_error(c)
                        ELSE [c EXCEPT !.pc = "env_write", !.existing_env = (answer = "existing")]>>
    /\ UNCHANGED <<now, network_stats, network_stats_logs, cache, pc, loc, cycles, advances, mongo>>

\* lines 181-213: requests.patch of the variable found, requests.post of a new one
update_token_env_write ==
    /\ call[1].pc = "env_write"
    /\ \E accepted \in BOOLEAN :
          LET c == [call[1] EXCEPT !.env_calls =
                        Append(@, IF call[1].existing_env THEN "patch" ELSE "post")]
          IN  call' = <<IF accepted THEN [c EXCEPT !.pc = "deploy"] ELSE token_error(c)>>
    /\ UNCHANGED <<now, network_stats, network_stats_logs, cache, pc, loc, cycles, advances, mongo>>

\* lines 215-239
update_token_deploy ==
    /\ call[1].pc = "deploy"
    /\ \E triggered \in (IF call[1].env.deploy_hook_url THEN BOOLEAN ELSE {FALSE}) :
          call' = <<[call[1] EXCEPT !.pc = "done", !.deployment_triggered = triggered,
                                    !.response = <<[success |-> TRUE, status |-> 200]>>]>>
    /\ UNCHANGED <<now, network_stats, network_stats_logs, cache, pc, loc, cycles, advances, mongo>>

NextToken ==
    \/ update_token_start
    \/ update_token_login
    \/ update_token_sleep
    \/ update_token_token
    \/ update_token_env_check
    \/ update_token_env_write
    \/ update_token_deploy

SpecToken == InitToken /\ [][NextToken]_vars

-----------------------------------------------------------------------------
(* is_valid_hashrate applied in isolation *)

\* The readings are whole numbers, as the snapshot builder produces them with
\* int().  On whole numbers the float operations of lines 71-90 are exact
\* whenever the mean is a binary fraction; otherwise the avg of line 84 is the
\* mean rounded to a double, within 2^-53 of it, and the model keeps the mean.
HistoryValues == {0, 8, 10, 12}

RECURSIVE SeqsUpTo(_, _)
SeqsUpTo(S, n) ==
    IF n = 0 THEN {<<>>}
    ELSE LET shorter == SeqsUpTo(S, n - 1)
         IN  shorter \cup {Append(h, x) : h \in shorter, x \in S}

Histories == SeqsUpTo(HistoryValues, MaxHistory) \cup {<<10, 100, 12, 11>>}

floats(h) == [i \in 1..Len(h) |-> Float(h[i])]

InitValid ==
    /\ now = StartClock
    /\ mongo = "up"
    /\ network_stats_logs = <<>>
    /\ AtRest
    /\ call \in {<<[current_value |-> v, previous_values |-> h, valid |-> <<>>]>> :
                    v \in 0..MaxValue, h \in Histories}

is_valid_hashrate_call ==
    /\ call[1].valid = <<>>
    /\ call' = <<[call[1] EXCEPT !.valid =
                    <<is_valid_hashrate(Float(call[1].current_value),
                                        floats(call[1].previous_values))>>]>>
    /\ UNCHANGED <<now, network_stats, network_stats_logs, cache, pc, loc, cycles, advances, mongo>>

NextValid == is_valid_hashrate_call

SpecValid == InitValid /\ [][NextValid]_vars

-----------------------------------------------------------------------------
(* The aggregator applied to the Samples of one period *)

\* the levels the four readings of a Sample take
Levels == {10, 25, 100}

\* the Sample a cycle writes at t with all four readings at level v
LevelSample(t, v) ==
    [Sample(t, "false", v) EXCEPT !.apool_hashrate = Float(v),
                                  !.solutions_hashrate = Float(v),
                                  !.minerlab_hashrate = Float(v)]

\* one Sample every 300 s from the start of the period on
LevelStore(h) == [i \in 1..Len(h) |-> LevelSample(StartClock + 100 + 300 * (i - 1), h[i])]

InitWindow ==
    /\ now = StartClock + 100 + 300 * (MaxRecords + 1)
    /\ mongo = "up"
    /\ network_stats \in {LevelStore(h) : h \in SeqsUpTo(Levels, MaxRecords)}
    /\ network_stats_logs = <<>>
    /\ cache = NoCache
    /\ pc = [p \in Procs |-> "idle"]
    /\ loc = [p \in Procs |-> InitLoc]
    /\ cycles = 0
    /\ advances = 0
    /\ call = <<[endpoint |-> "get_network_stats_data", returned |-> FALSE,
                 valid_records |-> <<>>, result |-> <<>>]>>

\* get_network_stats_data() called on its own; valid_records is its local of
\* lines 279-301
get_network_stats_data_call ==
    /\ ~call[1].returned
    /\ call' = <<[call[1] EXCEPT
            !.returned = TRUE,
            !.valid_records =
                valid_records_from(period_records(network_stats, period_start_agg(now)), 0),
            !.result = get_network_stats_data(network_stats, now)]>>
    /\ UNCHANGED <<now, network_stats, network_stats_logs, cache, pc, loc, cycles, advances, mongo>>

NextWindow == get_network_stats_data_call

SpecWindow == InitWindow /\ [][NextWindow]_vars

-----------------------------------------------------------------------------
(* Cycles on either side of the expiry of the cached snapshot *)

MaxCyclesCache == 2

UpstreamsCache == {UpBase, UpIdle, UpQliZero, UpApoolAbsent, UpMalformed}

\* the clock between two calls: just inside the cache duration, at it, and the
\* second that separates the two
DeltasCache == {1, CACHE_DURATION - 1, CACHE_DURATION}

NextCache ==
    \/ \E p \in Procs : update_network_stats(p, UpstreamsCache, MaxCyclesCache, TRUE, FALSE)
    \/ Steps(Procs)
    \/ Advance(DeltasCache, MaxAdvances, TRUE, FALSE)

SpecCache == Init /\ [][NextCache]_vars

-----------------------------------------------------------------------------
(* Claims *)

Timestamps(coll) == {coll[i].timestamp : i \in 1..Len(coll)}
LastLog(logs) == logs[Len(logs)]
LatestTimestamp(coll) ==
    CHOOSE t \in Timestamps(coll) : \A u \in Timestamps(coll) : u <= t

\* process p leaves the first part of calculate_network_stats in this step
ReadStep(p) == pc[p] = "calc" /\ pc'[p] # "calc"

\* process p inserts its Sample in this step
InsertStep(p) == pc[p] = "insert" /\ pc'[p] # "insert"

Spacing(coll) ==
    \A i, j \in 1..Len(coll) :
        i # j => Abs(coll[i].timestamp - coll[j].timestamp) >= 300

\* C1: with one cycle at a time and a non-decreasing clock, a cycle that finds
\* the most recent Sample less than 300 s old ends with a 'skip' event and
\* leaves the Samples alone, and any two Samples of the store are at least
\* 300 s apart.
C1_IntervalGuard ==
    [][/\ \A p \in Procs :
            (/\ ReadStep(p)
             /\ network_stats # <<>>
             /\ now - LatestTimestamp(network_stats) < 300)
            => /\ pc'[p] = "idle"
               /\ network_stats' = network_stats
               /\ Len(network_stats_logs') >= 1
               /\ LastLog(network_stats_logs').event_type = "skip"
       /\ Spacing(network_stats')]_vars

\* a skip by the interval guard has happened and two Samples are stored
C1_Witness ==
    /\ Len(network_stats) >= 2
    /\ \E i \in 1..Len(network_stats_logs) :
          /\ network_stats_logs[i].event_type = "skip"
          /\ network_stats_logs[i].message = "interval"

\* C2: even when cycles overlap, at most one Sample lies in any window of 300 s.
C2_OneSamplePerWindow ==
    \A i \in 1..Len(network_stats) :
        Cardinality({j \in 1..Len(network_stats) :
            /\ network_stats[j].timestamp >= network_stats[i].timestamp
            /\ network_stats[j].timestamp < network_stats[i].timestamp + 300}) <= 1

\* C3: a cycle whose snapshot says idle = true ends with a 'skip' event and
\* inserts nothing, and no stored Sample is marked idle.
C3_IdleGuard ==
    [][/\ \A p \in Procs :
            (ReadStep(p) /\ loc[p].tool_data[1].idle = "true")
            => /\ pc'[p] = "idle"
               /\ network_stats' = network_stats
               /\ Len(network_stats_logs') >= 1
               /\ LastLog(network_stats_logs').event_type = "skip"
       /\ \A i \in 1..Len(network_stats') : network_stats'[i].was_idle # "true"]_vars

\* an idle snapshot has met no recent Sample and was skipped by the idle guard
C3_Witness ==
    /\ Len(network_stats) >= 1
    /\ Len(network_stats_logs) >= 1
    /\ LastLog(network_stats_logs).event_type = "skip"
    /\ LastLog(network_stats_logs).message = "idle"

HistoryBefore(coll, i) == SubSeq(coll, IF i > 4 THEN i - 4 ELSE 1, i - 1)

\* C4: every stored Sample passed is_valid_hashrate, reading by reading, against
\* the Samples (up to 4) persisted before it.
C4_PlausibleAtWrite ==
    \A i \in 2..Len(network_stats) :
        LET history == HistoryBefore(network_stats, i)
        IN  /\ is_valid_hashrate(network_stats[i].qli_hashrate, qli_values(history))
            /\ is_valid_hashrate(network_stats[i].apool_hashrate, apool_values(history))
            /\ is_valid_hashrate(network_stats[i].solutions_hashrate, solutions_values(history))
            /\ is_valid_hashrate(network_stats[i].minerlab_hashrate, minerlab_values(history))

Positive(x) == x.n > 0 /\ x.d > 0

\* C5: a Sample is inserted only with all four entries of the validation map
\* true, and every stored Sample has four strictly positive hashrates.
C5_AllValidOrNotWritten ==
    [][/\ \A p \in Procs :
            InsertStep(p)
            => /\ loc[p].validation_results.qli
               /\ loc[p].validation_results.apool
               /\ loc[p].validation_results.solutions
               /\ loc[p].validation_results.minerlab
       /\ \A i \in 1..Len(network_stats') :
            /\ Positive(network_stats'[i].qli_hashrate)
            /\ Positive(network_stats'[i].apool_hashrate)
            /\ Positive(network_stats'[i].solutions_hashrate)
            /\ Positive(network_stats'[i].minerlab_hashrate)]_vars

\* a Sample is stored and a later cycle ended in a validation failure
C5_Witness ==
    /\ Len(network_stats) >= 1
    /\ Len(network_stats_logs) >= 1
    /\ LastLog(network_stats_logs).event_type = "validation"

KeptFrom(coll, bound) == SelectSeq(coll, LAMBDA r : r.timestamp >= bound)

\* C6: a cycle that commits into a later period than the previous Sample's has,
\* before its insert, removed exactly the Samples older than the previous
\* Sample's period_start; nothing else ever removes a Sample.
C6_Rollover ==
    [][/\ \A p \in Procs :
            (/\ InsertStep(p)
             /\ loc[p].last_record # <<>>
             /\ network_stats'[Len(network_stats')].period_start
                    > loc[p].last_record[1].period_start)
            => /\ \A i \in 1..Len(network_stats) :
                    network_stats[i].timestamp >= loc[p].last_record[1].period_start
               /\ loc[p].last_record[1] \in Range(network_stats)
       /\ \/ network_stats' = network_stats
          \/ \E p \in Procs : InsertStep(p) /\ Len(network_stats') = Len(network_stats) + 1
                              /\ SubSeq(network_stats', 1, Len(network_stats)) = network_stats
          \/ \E p \in Procs :
                /\ pc[p] = "rollover"
                /\ loc[p].period_start > loc[p].last_record[1].period_start
                /\ network_stats' = KeptFrom(network_stats, loc[p].last_record[1].period_start)]_vars

\* a rollover has deleted at least one Sample and kept another
C6_Witness ==
    \E p \in Procs :
        /\ pc[p] = "insert"
        /\ loc[p].deleted_count >= 1
        /\ Len(network_stats) >= 1

Periods(coll) == {coll[i].period_start : i \in 1..Len(coll)}

\* C7: with one cycle at a time, the stored Samples carry at most two distinct
\* period_start values.
C7_TwoPeriods == Cardinality(Periods(network_stats)) <= 2

\* a third period has been committed after a rollover deleted the first
C7_Witness ==
    /\ Cardinality(Periods(network_stats)) = 2
    /\ \E p \in Procs : pc[p] = "idle" /\ loc[p].deleted_count >= 1

IsWednesdayNoon(t) == (t - FirstWednesdayNoon) % Week = 0

\* C8: the three paths compute the same period_start, the Wednesday 12:00:00
\* UTC with period_start <= now < period_start + 7 days.
C8_PeriodAnchor ==
    call # <<>> =>
        /\ call[1].log = call[1].calc
        /\ call[1].agg = call[1].calc
        /\ IsWednesdayNoon(call[1].calc)
        /\ call[1].calc <= now
        /\ now < call[1].calc + Week

\* Wednesday 11:59:59 is mapped to the Wednesday 12:00:00 seven days earlier
C8_Witness ==
    /\ call # <<>>
    /\ weekday(now) = 2
    /\ now % Day = Noon - 1
    /\ call[1].calc = now + 1 - Week

\* the Wednesday 12:00:00 UTC at or before t, in closed form
AnchorOf(t) == t - ((t - FirstWednesdayNoon) % Week)

\* the Samples of the period of t, by rank of timestamp (the timestamps of
\* Samples written one cycle at a time are distinct)
InPeriod(coll, t) == {r \in Range(coll) : r.timestamp >= AnchorOf(t)}
Ranked(S) ==
    [k \in 1..Cardinality(S) |->
        CHOOSE r \in S : Cardinality({q \in S : q.timestamp < r.timestamp}) = k - 1]

\* position i of recs passes is_valid_hashrate on all four readings against
\* positions i-4..i-1
PassesWindow(recs, i) ==
    LET before == [k \in 1..4 |-> recs[i - 5 + k]]
    IN  /\ is_valid_hashrate(recs[i].qli_hashrate, [k \in 1..4 |-> before[k].qli_hashrate])
        /\ is_valid_hashrate(recs[i].apool_hashrate, [k \in 1..4 |-> before[k].apool_hashrate])
        /\ is_valid_hashrate(recs[i].solutions_hashrate, [k \in 1..4 |-> before[k].solutions_hashrate])
        /\ is_valid_hashrate(recs[i].minerlab_hashrate, [k \in 1..4 |-> before[k].minerlab_hashrate])

KeptPositions(recs) == {i \in 1..Len(recs) : i <= 4 \/ PassesWindow(recs, i)}

\* mean of four values without the greatest and the smallest
RatMax4(v) == CHOOSE x \in Range(v) : \A y \in Range(v) : RatLE(y, x)
RatMin4(v) == CHOOSE x \in Range(v) : \A y \in Range(v) : RatLE(x, y)
TrimmedMean4(v) == RatDiv(RatSub(RatSub(RatSum(v), RatMax4(v)), RatMin4(v)), Float(2))

TenTimes(x, y) == x.n * y.d = 10 * y.n * x.d

\* every reading of position i is 10 times the trimmed mean of its 4 predecessors
TenfoldJump(recs, i) ==
    LET before == [k \in 1..4 |-> recs[i - 5 + k]]
    IN  /\ TenTimes(recs[i].qli_hashrate, TrimmedMean4([k \in 1..4 |-> before[k].qli_hashrate]))
        /\ TenTimes(recs[i].apool_hashrate, TrimmedMean4([k \in 1..4 |-> before[k].apool_hashrate]))
        /\ TenTimes(recs[i].solutions_hashrate, TrimmedMean4([k \in 1..4 |-> before[k].solutions_hashrate]))
        /\ TenTimes(recs[i].minerlab_hashrate, TrimmedMean4([k \in 1..4 |-> before[k].minerlab_hashrate]))

RECURSIVE SumAt(_, _)
SumAt(vals, K) ==
    IF K = {} THEN Float(0)
    ELSE LET i == CHOOSE k \in K : TRUE
         IN  RatAdd(vals[i], SumAt(vals, K \ {i}))

MeanAt(vals, K) == RatDiv(SumAt(vals, K), Float(Cardinality(K)))

\* process p calls get_tool_data past an expired or empty cache in this step and
\* gets a success snapshot
BuildStep(p) == pc[p] = "idle" /\ pc'[p] = "calc" /\ ~cache_hit(cache.get_tool_data, now)

\* C9: the aggregator keeps the first 4 Samples of the period and, from the 5th
\* on, exactly those whose four readings pass is_valid_hashrate against the 4
\* Samples before them; a Sample 10 times above the trimmed mean of its 4
\* predecessors is not counted and not averaged.
C9_AggregatorFilter ==
    [][\A p \in Procs :
        BuildStep(p) =>
            LET recs == Ranked(InPeriod(network_stats, now))
                K == KeptPositions(recs)
                got == loc'[p].network_stats_data
            IN  /\ recs # <<>> => got # <<>>
                /\ got # <<>> =>
                    /\ got[1].record_count = Cardinality(K)
                    /\ got[1].averages.average_apool_hashrate
                            = MeanAt([k \in 1..Len(recs) |-> recs[k].apool_hashrate], K)
                    /\ \A i \in 5..Len(recs) :
                            TenfoldJump(recs, i) =>
                                /\ i \notin K
                                /\ got[1].record_count < Len(recs)]_vars

\* the aggregator has run on 5 or more Samples of the period and dropped one
C9_Witness ==
    \E p \in Procs :
        /\ pc[p] = "calc"
        /\ loc[p].network_stats_data # <<>>
        /\ Cardinality(InPeriod(network_stats, now)) >= 5
        /\ loc[p].network_stats_data[1].record_count < Cardinality(InPeriod(network_stats, now))
        /\ \E i \in 5..Cardinality(InPeriod(network_stats, now)) :
              TenfoldJump(Ranked(InPeriod(network_stats, now)), i)

\* C10: the aggregator reads the Samples with timestamp >= the current
\* period_start only, returns None when there are none, else the mean of each
\* hashrate over the kept Samples, their number and the period_start, and
\* leaves the store as it is.
C10_AggregatorResult ==
    [][\A p \in Procs :
        BuildStep(p) =>
            LET recs == Ranked(InPeriod(network_stats, now))
                K == KeptPositions(recs)
                got == loc'[p].network_stats_data
            IN  /\ network_stats' = network_stats
                /\ (got = <<>>) <=> (recs = <<>> \/ K = {})
                /\ got # <<>> =>
                    /\ got[1].period_start = AnchorOf(now)
                    /\ got[1].record_count = Cardinality(K)
                    /\ got[1].averages.average_qli_hashrate
                            = MeanAt([k \in 1..Len(recs) |-> recs[k].qli_hashrate], K)
                    /\ got[1].averages.average_apool_hashrate
                            = MeanAt([k \in 1..Len(recs) |-> recs[k].apool_hashrate], K)
                    /\ got[1].averages.average_solutions_hashrate
                            = MeanAt([k \in 1..Len(recs) |-> recs[k].solutions_hashrate], K)
                    /\ got[1].averages.average_minerlab_hashrate
                            = MeanAt([k \in 1..Len(recs) |-> recs[k].minerlab_hashrate], K)]_vars

\* the aggregator has returned averages while the store also held a Sample of
\* the period before
C10_Witness ==
    \E p \in Procs :
        /\ pc[p] = "calc"
        /\ loc[p].network_stats_data # <<>>
        /\ loc[p].network_stats_data[1].record_count >= 2
        /\ \E i \in 1..Len(network_stats) : network_stats[i].timestamp < AnchorOf(now)

\* a response to the request exists: the server answered
ResponseExists(outcome) == outcome \in {"http_error", "undecodable"}

\* C11: safe_request returns the decoded payload when the call succeeds and
\* leaves the log alone; for every other outcome it returns None after
\* appending one 'error' LogEntry that carries the URL and the method, and
\* the status code and the body whenever the server answered.
C11_SafeRequest ==
    (call # <<>> /\ call[1].result # <<>>) =>
        LET c == call[1]
            n == Len(c.logs_before)
        IN  IF c.outcome = "ok"
            THEN c.result = <<"payload">> /\ network_stats_logs = c.logs_before
            ELSE /\ c.result = <<"None">>
                 /\ Len(network_stats_logs) = n + 1
                 /\ SubSeq(network_stats_logs, 1, n) = c.logs_before
                 /\ LastLog(network_stats_logs).event_type = "error"
                 /\ LastLog(network_stats_logs).data[1].url = c.url
                 /\ LastLog(network_stats_logs).data[1].method = c.method
                 /\ ResponseExists(c.outcome) =>
                        /\ LastLog(network_stats_logs).data[1].status_code # <<>>
                        /\ LastLog(network_stats_logs).data[1].response_text # <<>>

\* the snapshot built from the same answers with no source absent
FullSnapshot == build_tool_data(UpBase, <<>>, <<>>, StartClock).result

\* C12: whichever sources are Absent, get_tool_data returns a success
\* snapshot in which the fields of the absent sources are omitted or null and
\* the fields of the present sources, the corrected_hashrate of each present
\* pool among them, are what they are when no source is absent.
C12_PartialAggregation ==
    (call # <<>> /\ call[1].result # <<>>) =>
        LET absent == call[1].absent
            got == call[1].result[1]
        IN  /\ got.status = "success"
            /\ got.has_tick = ("TickOverview" \notin absent)
            /\ got.has_rate = ("exchange_rate" \notin absent)
            /\ got.has_proposal = ("Proposal" \notin absent)
            /\ got.idle = IF "miner_control" \in absent THEN "missing" ELSE FullSnapshot.idle
            /\ got.qli_hashrate = IF "Score" \in absent THEN <<>> ELSE FullSnapshot.qli_hashrate
            /\ got.apool = IF "apool" \in absent THEN <<>> ELSE FullSnapshot.apool
            /\ got.solutions = IF "solutions" \in absent THEN <<>> ELSE FullSnapshot.solutions
            /\ got.minerlab = IF "minerlab" \in absent THEN <<>> ELSE FullSnapshot.minerlab

\* an evaluation cycle starts in this step
UpdateStep == cycles' = cycles + 1

\* process p performs the next store operation of calculate_network_stats
CalcStep(p) == pc[p] # "idle" /\ pc'[p] # pc[p]

\* the step appends an 'error' LogEntry of the cycle
ErrorRecorded ==
    /\ network_stats_logs' # network_stats_logs
    /\ LastLog(network_stats_logs').event_type = "error"
    /\ LastLog(network_stats_logs').message \in {"calculating", "format"}
    /\ LastLog(network_stats_logs').timestamp = now

\* C13: a store operation that raises inside a cycle, and a snapshot that is
\* not a success snapshot, end the step without leaving the cycle in an
\* abnormal position, and an 'error' LogEntry is appended whenever the log
\* collection accepts writes.
C13_FailuresLogged ==
    [][/\ \A p \in Procs :
            (CalcStep(p) /\ mongo # "up")
            => /\ pc'[p] = "idle"
               /\ mongo # "down" => ErrorRecorded
       /\ (UpdateStep /\ pc' = pc /\ mongo # "down") => ErrorRecorded
       /\ (UpdateStep /\ ~cache_hit(cache.get_tool_data, now) /\ mongo = "network_stats_failing")
            => ErrorRecorded]_vars

\* C14: a response of the logs endpoint or of the snapshot endpoint that is
\* produced while the database is unreachable is an error response.
C14_ReadsReportUnavailable ==
    (/\ call # <<>>
     /\ call[1].endpoint \in {"tool", "logs"}
     /\ call[1].status # "checked"
     /\ call[1].mongo = "down")
    => call[1].status = "error"

\* a stored LogEntry as get_network_stats_logs returns it
returned_form(e) == [e EXCEPT !.timestamp = isoformat(@), !.period_start = isoformat(@)]

\* r[i] carries the i-th newest timestamp of the store s
IthNewest(r, s, i) ==
    /\ Cardinality({k \in 1..Len(s) : s[k].timestamp > r[i].timestamp.isoformat}) < i
    /\ i =< Cardinality({k \in 1..Len(s) : s[k].timestamp >= r[i].timestamp.isoformat})

\* r is the n most recent entries of the store s, newest first
RecentLogs(r, s, n) ==
    /\ Len(r) =< n
    /\ Len(r) = (IF n < Len(s) THEN n ELSE Len(s))
    /\ \A i \in 1..Len(r) :
          /\ IthNewest(r, s, i)
          /\ Cardinality({j \in 1..Len(r) : r[j] = r[i]})
                =< Cardinality({k \in 1..Len(s) : returned_form(s[k]) = r[i]})
          /\ \A j \in i..Len(r) : r[i].timestamp.isoformat >= r[j].timestamp.isoformat

\* the last call from outside was get_network_stats_logs(limit)
LogsCalled == call # <<>> /\ call[1].endpoint = "get_network_stats_logs"

\* the step is a call of get_network_stats_logs(limit)
LogsCallStep ==
    /\ call' # <<>>
    /\ call'[1].endpoint = "get_network_stats_logs"
    /\ call' # call

\* C15: every call get_network_stats_logs(limit) returns the limit most recent
\* entries of the log store, newest first, leaves the log store as it was, and
\* returns what the previous call returned when the limit is the same and
\* nothing was written in between.
C15_RecentLogs ==
    [][LogsCallStep
       => /\ RecentLogs(call'[1].logs, network_stats_logs, call'[1].limit)
          /\ network_stats_logs' = network_stats_logs
          /\ (LogsCalled /\ call[1].limit = call'[1].limit
                /\ call[1].seen = network_stats_logs)
              => call'[1].logs = call[1].logs]_vars

\* the same contract for the calls made while the server answers
RecentLogsWhileReachable ==
    [][(LogsCallStep /\ mongo # "down")
       => /\ RecentLogs(call'[1].logs, network_stats_logs, call'[1].limit)
          /\ network_stats_logs' = network_stats_logs
          /\ (LogsCalled /\ call[1].limit = call'[1].limit /\ call[1].mongo # "down"
                /\ call[1].seen = network_stats_logs)
              => call'[1].logs = call[1].logs]_vars

\* process p is at the start of calculate_network_stats with a snapshot that
\* is not idle, and the most recent Sample is marked idle and d seconds old
AfterIdle(p, d) ==
    /\ pc[p] = "calc"
    /\ get_idle(loc[p].tool_data[1]) = "false"
    /\ network_stats # <<>>
    /\ \A r \in find_latest(network_stats) :
          Truthy(r.was_idle) /\ now - r.timestamp = d

\* the readings of the snapshot as lines 138-164 extract them
extracted(tool_data) ==
    [qli |-> Float(tool_data.qli_hashrate[1]),
     apool |-> Float(get_corrected(tool_data.apool)),
     solutions |-> Float(get_corrected(tool_data.solutions)),
     minerlab |-> Float(get_corrected(tool_data.minerlab))]

\* the entries the step appends to the event log
Appended == SubSeq(network_stats_logs', Len(network_stats_logs) + 1, Len(network_stats_logs'))

\* C16: with the most recent Sample marked idle at T and a snapshot that is
\* not idle, the evaluation at T + 200 s ends with a 'skip' entry and no
\* write, and the evaluation at T + 301 s logs no 'skip', extracts the
\* readings and goes on to their validation.
C16_IdleRecovery ==
    [][\A p \in Procs :
         /\ (AfterIdle(p, 200) /\ pc'[p] # "calc")
            => /\ pc'[p] = "idle"
               /\ network_stats' = network_stats
               /\ Len(Appended) = 1
               /\ Appended[1].event_type = "skip"
         /\ (AfterIdle(p, 301) /\ pc'[p] # "calc")
            => /\ \A i \in 1..Len(Appended) : Appended[i].event_type # "skip"
               /\ loc'[p].hashrate_data = extracted(loc[p].tool_data[1])
               /\ \/ pc'[p] \in {"qli", "rollover", "insert"}
                  \/ /\ pc'[p] = "idle"
                     /\ LastLog(network_stats_logs').event_type = "validation"]_vars

\* a behaviour that started 200 s after a Sample marked idle: that evaluation
\* was skipped, and the evaluation 301 s after the Sample has written a Sample
C16_Witness ==
    /\ Len(network_stats) >= 2
    /\ \E i \in 1..Len(network_stats) : \E j \in 1..Len(network_stats) :
          /\ Truthy(network_stats[i].was_idle)
          /\ network_stats[j].timestamp = network_stats[i].timestamp + 301
    /\ \E k \in 1..Len(network_stats_logs) :
          /\ network_stats_logs[k].event_type = "skip"
          /\ network_stats_logs[k].timestamp = StartClock + 200

\* the Samples with a positive QLI value, in the order they were written
positive_qli(samples) == SelectSeq(samples, LAMBDA r : RatLT(Float(0), r.qli_hashrate))

\* the last five elements of s, all of s when it has fewer
last_five(s) == IF Len(s) =< 5 THEN s ELSE SubSeq(s, Len(s) - 4, Len(s))

\* the step appends an entry of the given type to the event log
Logged(event_type) == \E i \in 1..Len(Appended) : Appended[i].event_type = event_type

\* C17: an evaluation that reads a QLI value <= 0 logs a 'warning'; the value
\* is then replaced by the mean of the up to 5 most recent Samples with a
\* positive QLI value, and the Sample the evaluation writes carries that mean;
\* with no such Sample the value stays non-positive, the evaluation ends in a
\* 'validation' entry and nothing is written.
C17_QliSelfCorrection ==
    [][\A p \in Procs :
         /\ (pc[p] = "calc" /\ pc'[p] # "calc" /\ pc'[p] # "idle")
            => /\ pc'[p] = "qli" <=> RatLE(extracted(loc[p].tool_data[1]).qli, Float(0))
               /\ pc'[p] = "qli" => Logged("warning")
         /\ (pc[p] = "qli" /\ pc'[p] # "qli")
            => IF positive_qli(network_stats) # <<>>
               THEN /\ loc'[p].estimated_its
                         = RatMean(qli_values(last_five(positive_qli(network_stats))))
                    /\ RatLT(Float(0), loc'[p].estimated_its)
                    /\ all_valid(pool_check(AllTrue, loc[p].hashrate_data))
                         => pc'[p] \in {"rollover", "insert"}
               ELSE /\ RatLE(loc'[p].estimated_its, Float(0))
                    /\ pc'[p] = "idle"
                    /\ Logged("validation")
                    /\ network_stats' = network_stats
         /\ (pc[p] = "insert" /\ pc'[p] # "insert")
            => /\ Len(network_stats') = Len(network_stats) + 1
               /\ network_stats'[Len(network_stats')].qli_hashrate = loc[p].estimated_its]_vars

\* an evaluation with a QLI reading of 0 has written a Sample while more than
\* five Samples with a positive QLI value were stored, and the mean of the
\* five most recent differs from the mean of all of them
C17_Witness ==
    /\ Len(network_stats) >= 7
    /\ \E p \in Procs :
          /\ pc[p] = "idle"
          /\ RatLE(loc[p].hashrate_data.qli, Float(0))
          /\ network_stats[Len(network_stats)].timestamp = loc[p].current_time
          /\ network_stats[Len(network_stats)].qli_hashrate = loc[p].estimated_its
          /\ loc[p].estimated_its
               # RatMean(qli_values(SubSeq(network_stats, 1, Len(network_stats) - 1)))

\* C18: an evaluation that passes the guards with a snapshot that is not idle
\* and whose four readings are all 0 ends in a 'validation' entry without any
\* change of the Samples, whether or not Samples are stored.
C18_ZeroReadings ==
    [][\A p \in Procs :
         (/\ pc[p] \in {"calc", "qli"}
          /\ pc'[p] \notin {"calc", "qli"}
          /\ get_idle(loc[p].tool_data[1]) = "false"
          /\ loc'[p].hashrate_data = NoHashrates
          /\ ~Logged("skip"))
         => /\ pc'[p] = "idle"
            /\ Logged("validation")
            /\ ~Logged("success")
            /\ network_stats' = network_stats]_vars

\* evaluations of four zero readings have ended in a 'validation' entry at a
\* moment the store was empty and at a moment it held a Sample
C18_Witness ==
    /\ network_stats # <<>>
    /\ \E i \in 1..Len(network_stats_logs) : \E j \in 1..Len(network_stats_logs) :
          /\ network_stats_logs[i].event_type = "validation"
          /\ network_stats_logs[i].data[1].hashrates = NoHashrates
          /\ network_stats_logs[i].timestamp < network_stats[1].timestamp
          /\ network_stats_logs[j].event_type = "validation"
          /\ network_stats_logs[j].data[1].hashrates = NoHashrates
          /\ network_stats_logs[j].timestamp > network_stats[Len(network_stats)].timestamp

RECURSIVE SeqSum(_)
SeqSum(h) == IF h = <<>> THEN 0 ELSE Head(h) + SeqSum(Tail(h))

SeqMax(h) == CHOOSE x \in Range(h) : \A y \in Range(h) : y =< x
SeqMin(h) == CHOOSE x \in Range(h) : \A y \in Range(h) : x =< y

\* is_valid_hashrate has returned for the call
Returned == call # <<>> /\ call[1].valid # <<>>

\* C19: with no historical value, or a single one that is 0, every value is
\* valid; with a single historical value h > 0 the value is valid exactly
\* when |value - h| <= h / 2, equality included.
C19_ShortHistory ==
    (Returned /\ Len(call[1].previous_values) =< 1)
    => LET v == call[1].current_value
           h == call[1].previous_values
       IN  call[1].valid[1] <=> \/ h = <<>>
                                \/ h[1] = 0
                                \/ 2 * Abs(v - h[1]) =< h[1]

\* a value exactly half above the single historical value was found valid
C19_Witness ==
    /\ Returned
    /\ call[1].previous_values = <<10>>
    /\ call[1].current_value = 15
    /\ call[1].valid = <<TRUE>>

\* C20: with two historical values the base is both of them, with three or
\* more it is the history less one occurrence of its greatest and one of its
\* smallest value; the value is valid exactly when the mean of the base is 0
\* or |value - mean| <= mean / 2.  For [10, 100, 12, 11] the base is 11, 12.
C20_TrimmedMean ==
    (Returned /\ Len(call[1].previous_values) >= 2)
    => LET v == call[1].current_value
           h == call[1].previous_values
           trimmed == Len(h) >= 3
           sum == IF trimmed THEN SeqSum(h) - SeqMax(h) - SeqMin(h) ELSE SeqSum(h)
           count == IF trimmed THEN Len(h) - 2 ELSE Len(h)
       IN  /\ call[1].valid[1] <=> (sum = 0 \/ 2 * Abs(v * count - sum) =< sum)
           /\ h = <<10, 100, 12, 11>>
                => /\ values_for_avg(sorted(floats(h))) = <<Float(11), Float(12)>>
                   /\ call[1].valid[1] <=> 2 * Abs(2 * v - 23) =< 23

\* 17 was found valid against [10, 100, 12, 11]: it is within half of the
\* mean of 11 and 12 and far from the mean of the four values
C20_Witness ==
    /\ Returned
    /\ call[1].previous_values = <<10, 100, 12, 11>>
    /\ call[1].current_value = 17
    /\ call[1].valid = <<TRUE>>

\* a call of safe_request has been made and has not returned
FetchPending == call # <<>> /\ call[1].result = <<>>

\* C21: a call of safe_request that has not returned can return, whatever the
\* source does: no fetch waits for ever.
C21_FetchBounded == FetchPending => ENABLED safe_request_call

\* the period_start of the most recent LogEntry
LatestLogPeriod(logs) ==
    (CHOOSE l \in Range(logs) : \A m \in Range(logs) : m.timestamp =< l.timestamp).period_start

\* what a call of log_network_stats_event at clock value t keeps of the log
KeptLogs(logs, t) ==
    IF logs # <<>> /\ AnchorOf(t) > LatestLogPeriod(logs)
    THEN SelectSeq(logs, LAMBDA l : l.timestamp >= LatestLogPeriod(logs))
    ELSE logs

\* C22: a step that logs leaves the log as the entries kept by the retention
\* rule (all of them unless the period of the clock is later than the
\* period_start of the most recent entry, else those not older than that
\* period_start) followed by the new entries; logging does this whether or
\* not a Sample is written, and only the insert and the rollover touch the
\* Samples.
C22_LogRetention ==
    [][/\ network_stats_logs' # network_stats_logs
          => \E k \in 1..Len(network_stats_logs') :
                /\ SubSeq(network_stats_logs', 1, Len(network_stats_logs') - k)
                     = KeptLogs(network_stats_logs, now)
                /\ \A i \in (Len(network_stats_logs') - k + 1)..Len(network_stats_logs') :
                      /\ network_stats_logs'[i].timestamp = now
                      /\ network_stats_logs'[i].period_start = AnchorOf(now)
       /\ (\A p \in Procs : pc[p] \notin {"rollover", "insert"})
          => network_stats' = network_stats]_vars

\* the log has lost the entries of the period in which the oldest stored
\* Sample was written, in an evaluation that ended in a skip
C22_Witness ==
    /\ network_stats # <<>>
    /\ network_stats_logs # <<>>
    /\ network_stats[1].timestamp = StartClock
    /\ \A i \in 1..Len(network_stats_logs) :
          network_stats_logs[i].timestamp >= AnchorOf(StartClock) + Week
    /\ LastLog(network_stats_logs).event_type = "skip"
    /\ LastLog(network_stats_logs).timestamp >= AnchorOf(StartClock) + 2 * Week

\* the Samples of coll that are still in coll2, in their order
Surviving(coll, coll2) == SelectSeq(coll, LAMBDA r : r \in Range(coll2))

\* C23: a step changes the Samples only by appending one Sample, in the insert
\* of an evaluation that passed validation, or by removing Samples, in the
\* rollover of such an evaluation; the Samples that stay are unchanged and in
\* their order.  The steps of an evaluation that ends in 'skip' or
\* 'validation', the snapshot build with its aggregator and the log reader
\* leave the Samples as they are.
C23_SamplesImmutable ==
    [][/\ \/ network_stats' = network_stats
          \/ \E p \in Procs :
                /\ pc[p] = "insert" /\ pc'[p] = "idle"
                /\ all_valid(loc[p].validation_results)
                /\ Len(network_stats') = Len(network_stats) + 1
                /\ SubSeq(network_stats', 1, Len(network_stats)) = network_stats
          \/ \E p \in Procs :
                /\ pc[p] = "rollover" /\ pc'[p] = "insert"
                /\ all_valid(loc[p].validation_results)
                /\ Len(network_stats') < Len(network_stats)
                /\ network_stats' = Surviving(network_stats, network_stats')
       /\ (Logged("skip") \/ Logged("validation") \/ UpdateStep \/ LogsCallStep)
          => network_stats' = network_stats]_vars

\* a Sample found at start-up is still stored as it was, after the rollover of
\* an evaluation removed an older one and its insert added a new one, and
\* after the log reader ran
C23_Witness ==
    /\ Len(network_stats) = 2
    /\ network_stats[1] = Sample(StartClock, "false", 8)
    /\ network_stats[2].timestamp > StartClock
    /\ \E p \in Procs : loc[p].deleted_count = 1
    /\ LogsCalled
    /\ Len(call[1].logs) > 0

\* find_one(sort=[('timestamp', -1)]) as an optional value
latest_or_none(samples) ==
    IF samples = <<>> THEN <<>> ELSE <<CHOOSE r \in find_latest(samples) : TRUE>>

\* calculate_network_stats(tool_data) run without interruption at clock value
\* t on the Samples samples: its parts in the order of lines 98-241
eval_read(samples, tool_data, t) ==
    calculate_read([InitLoc EXCEPT !.tool_data = <<tool_data>>], latest_or_none(samples), <<>>, t)

eval_qli(r, samples, t) ==
    IF r.pc = "qli" THEN calculate_qli(r.loc, samples, r.logs, t) ELSE r

eval_commit(r, samples) ==
    IF r.pc = "idle" THEN [outcome |-> LastLog(r.logs).event_type, store |-> samples]
    ELSE [outcome |-> "success",
          store |-> Append(IF r.pc = "rollover"
                           THEN delete_many_lt(samples, r.loc.last_record[1].period_start)
                           ELSE samples,
                           new_record(r.loc))]

\* the terminal event and the Samples after it
evaluation(samples, tool_data, t) ==
    eval_commit(eval_qli(eval_read(samples, tool_data, t), samples, t), samples)

\* the snapshot update_network_stats gets at clock value t from the answers up
snapshot_of(up, samples, t) == build_tool_data(up, samples, <<>>, t).result

\* what an evaluation commits: its terminal event and, when that is
\* 'success', the Samples after the insert
committed(e) == IF e.outcome = "success" THEN e ELSE [outcome |-> e.outcome, store |-> <<>>]

\* what the next evaluation commits, from the Samples found
next_evaluation(samples, up, t) ==
    committed(evaluation(samples, snapshot_of(up, samples, t), t))

\* the rollover of process p has deleted and its insert has not run: the
\* step after which an evaluation can be cut off with the store changed
RolloverStep(p) == pc[p] = "rollover" /\ pc'[p] = "insert"

\* the most recent Sample and every Sample from its period_start on are kept
RecentKept ==
    \A r \in Range(network_stats) :
        r.timestamp >= latest_or_none(network_stats)[1].period_start
        => r \in Range(network_stats')

\* C24: after the rollover delete of an evaluation, the store holds the most
\* recent Sample and every Sample from its period_start on, and an evaluation
\* started afresh on that store, now or at the next tick, ends with the same
\* event and the same Samples as one started on the store before the delete.
C24_CrashTolerance ==
    [][\A p \in Procs :
         RolloverStep(p)
         => /\ RecentKept
            /\ \/ network_stats' = network_stats
               \/ \A up \in UpstreamsRestart : \A t \in {now, now + 300} :
                     next_evaluation(network_stats', up, t) = next_evaluation(network_stats, up, t)]_vars

\* e with the qli_hashrate of the Sample it committed left out
but_qli(e) ==
    IF e.outcome # "success" THEN e
    ELSE [e EXCEPT !.store[Len(e.store)].qli_hashrate = Float(0)]

\* the amended C24: the same, except that the Sample committed after a QLI
\* reading <= 0 carries the mean of the positive QLI values among the Samples
\* that survived the delete, which may differ from the mean before it.
C24_CrashToleranceButQli ==
    [][\A p \in Procs :
         RolloverStep(p)
         => /\ RecentKept
            /\ \A up \in (IF network_stats' = network_stats THEN {} ELSE UpstreamsRestart) :
               \A t \in {now, now + 300} :
                  LET after == next_evaluation(network_stats', up, t)
                      before == next_evaluation(network_stats, up, t)
                  IN  /\ but_qli(after) = but_qli(before)
                      /\ up.score[1].estimatedIts > 0 => after = before
                      /\ (up.score[1].estimatedIts =< 0 /\ after.outcome = "success")
                         => after.store[Len(after.store)].qli_hashrate
                              = RatMean(qli_values(last_five(positive_qli(network_stats'))))]_vars

\* an evaluation was cut off after its rollover had deleted the older Sample,
\* and the next evaluation has done the rollover check again, deleted nothing
\* and committed
C24_Witness ==
    /\ cycles = 2
    /\ Len(network_stats) = 2
    /\ network_stats[1] = Sample(StartClock, "false", 8)
    /\ \E p \in Procs :
          /\ pc[p] = "idle"
          /\ loc[p].last_record = <<network_stats[1]>>
          /\ loc[p].period_start > network_stats[1].period_start
          /\ loc[p].deleted_count = 0
          /\ network_stats[2] = new_record(loc[p])
    /\ Cardinality({i \in 1..Len(network_stats_logs) :
                      network_stats_logs[i].event_type \in {"skip", "validation", "error", "success"}}) = 1

\* a source of the snapshot is absent: the current qli_hashrate is null, or
\* the normalized entry of a pool is missing
SourceAbsent(tool_data) ==
    \/ tool_data.qli_hashrate = <<>>
    \/ tool_data.apool = <<>>
    \/ tool_data.solutions = <<>>
    \/ tool_data.minerlab = <<>>

\* C25: an evaluation that passes the guards with a snapshot in which a source
\* is absent takes the absent reading as 0 and goes on to the QLI
\* self-correction and the validation: it logs no 'error', and if it ends in
\* this step it ends with a 'validation' entry.
C25_ExtractionDefaults ==
    [][\A p \in Procs :
         (/\ ReadStep(p)
          /\ mongo = "up"
          /\ SourceAbsent(loc[p].tool_data[1])
          /\ ~Logged("skip"))
         => /\ ~Logged("error")
            /\ pc'[p] = "idle" => Logged("validation")
            /\ loc'[p].hashrate_data.qli =
                  (IF loc[p].tool_data[1].qli_hashrate = <<>> THEN Float(0)
                   ELSE Float(loc[p].tool_data[1].qli_hashrate[1]))
            /\ loc'[p].hashrate_data.apool = Float(get_corrected(loc[p].tool_data[1].apool))]_vars

\* the events that end a run of calculate_network_stats
Terminal == {"skip", "validation", "error", "success"}

\* process p enters calculate_network_stats in this step
RunStarts(p) == pc[p] = "idle" /\ pc'[p] = "calc"

\* process p returns from calculate_network_stats in this step
RunEnds(p) == CalcStep(p) /\ pc'[p] = "idle"

\* the terminal events among the entries the step appends
TerminalAppended == {i \in 1..Len(Appended) : Appended[i].event_type \in Terminal}

\* the step inserts one Sample and changes nothing else in the collection
OneInserted ==
    /\ Len(network_stats') = Len(network_stats) + 1
    /\ SubSeq(network_stats', 1, Len(network_stats)) = network_stats

\* the locals of p hold nothing of an earlier run
Fresh(p) ==
    loc'[p] = [InitLoc EXCEPT !.tool_data = loc'[p].tool_data,
                              !.network_stats_data = loc'[p].network_stats_data]

\* a run in progress logs no terminal event and inserts nothing
RunGoesOn(p) ==
    (CalcStep(p) /\ pc'[p] # "idle")
    => TerminalAppended = {} /\ Len(network_stats') =< Len(network_stats)

PoolHashOf(i) ==
    CASE i.normalizer = "apool" -> i.data.pool_hash
      [] i.normalizer = "solutions" -> i.data.iterrate
      [] OTHER -> i.data.currentIts

AcceptedOf(i) ==
    CASE i.normalizer = "apool" -> i.data.accepted_solution
      [] i.normalizer = "solutions" -> i.data.solo + i.data.pplns
      [] OTHER -> i.data.currentEpochSolutions

\* C27: the entry a pool normalizer returns carries corrected_hashrate =
\* floor(pool_hash * total_solutions / accepted_solutions) when
\* accepted_solutions > 0 and 0 when it is 0, accepted_solutions being
\* solo + pplns for the solutions pool.
C27_CorrectedHashrate ==
    (call # <<>> /\ call[1].entry # <<>>)
    => /\ call[1].entry[1].accepted_solution = AcceptedOf(call[1].input)
       /\ call[1].entry[1].corrected_hashrate =
             (IF AcceptedOf(call[1].input) > 0
              THEN (PoolHashOf(call[1].input) * call[1].input.total_solutions)
                      \div AcceptedOf(call[1].input)
              ELSE 0)

\* the login attempt answered: raise_for_status and json() passed
Answered(a) == a.outcome \in LoginAnswers

\* C28: update_token makes at most 3 login attempts, none after one that was
\* answered, each 2 s after the one before; when the third attempt has
\* failed, the call returns an error response and has made no request to the
\* environment variables of the deployment platform.
C28_LoginRetry ==
    (call # <<>> /\ call[1].endpoint = "update_token")
    => LET a == call[1].attempts
       IN  /\ Len(a) =< 3
           /\ \A i \in 1..(Len(a) - 1) :
                 /\ ~Answered(a[i])
                 /\ a[i + 1].at - a[i].at = a[2].at - a[1].at
                 /\ a[i + 1].at - a[i].at = 2
           /\ (Len(a) = 3 /\ ~Answered(a[3]))
              => /\ call[1].pc = "done"
                 /\ call[1].response = <<[success |-> FALSE, status |-> 500]>>
                 /\ call[1].env_calls = <<>>
           /\ call[1].env_calls # <<>> => Answered(a[Len(a)])

\* the login has failed three times and the call has returned
C28_Witness ==
    /\ call # <<>>
    /\ call[1].endpoint = "update_token"
    /\ Len(call[1].attempts) = 3
    /\ \A i \in 1..3 : call[1].attempts[i].outcome = "request_exception"
    /\ call[1].pc = "done"
    /\ now = StartClock + 4

\* an evaluation was skipped with the 'idle recovery' reason
RecoverySkipped ==
    \E i \in 1..Len(network_stats_logs) :
        /\ network_stats_logs[i].event_type = "skip"
        /\ network_stats_logs[i].message = "idle recovery"

\* C29: every Sample in the store has was_idle = false, so the condition of
\* the recovery guard is false for the most recent Sample at every moment, and
\* no evaluation has been skipped with the 'idle recovery' reason.
C29_NeverIdle ==
    /\ \A i \in 1..Len(network_stats) : network_stats[i].was_idle = "false"
    /\ \A t \in {now, now + 200} : ~recovery_guard(latest_or_none(network_stats), t)
    /\ ~RecoverySkipped

\* C30: when the store holds n >= 1 Samples of the current period and the
\* aggregator's read succeeds, get_network_stats_data returns a result, with
\* min(n, 4) <= record_count <= n.
C30_AggregatorCount ==
    [][\A p \in Procs :
        (BuildStep(p) /\ mongo = "up") =>
            LET n == Cardinality(InPeriod(network_stats, now))
                got == loc'[p].network_stats_data
            IN  n >= 1 =>
                    /\ got # <<>>
                    /\ got[1].record_count >= (IF n < 4 THEN n ELSE 4)
                    /\ got[1].record_count =< n]_vars

\* the aggregator has run on 5 Samples of the period and counted 4
C30_Witness ==
    \E p \in Procs :
        /\ pc[p] = "calc"
        /\ Cardinality(InPeriod(network_stats, now)) = 5
        /\ loc[p].network_stats_data # <<>>
        /\ loc[p].network_stats_data[1].record_count = 4

\* the readings of Sample i
Readings(recs, i) ==
    <<recs[i].qli_hashrate, recs[i].apool_hashrate, recs[i].solutions_hashrate,
      recs[i].minerlab_hashrate>>

\* Sample i is the 4th or a later consecutive Sample with its readings
FourthAtLevel(recs, i) ==
    i >= 4 /\ \A j \in (i - 3)..i : Readings(recs, j) = Readings(recs, i)

\* C31: the aggregator judges the 5th and every later Sample of the period
\* against the 4 Samples before it, kept or rejected alike; hence the 4th and
\* every later consecutive Sample with the same readings is kept: of the
\* Samples at a new level at most the first 3 are rejected.
C31_LevelShift ==
    (call # <<>> /\ call[1].endpoint = "get_network_stats_data" /\ call[1].returned)
    => LET recs == period_records(network_stats, AnchorOf(now))
           kept == Range(call[1].valid_records)
       IN  /\ \A i \in 5..Len(recs) : (recs[i] \in kept) <=> PassesWindow(recs, i)
           /\ \A i \in 1..Len(recs) : FourthAtLevel(recs, i) => recs[i] \in kept
           /\ call[1].result # <<>> => call[1].result[1].record_count = Cardinality(kept)

\* the readings went from 10 to 100 at the 5th Sample: the 5th, 6th and 7th
\* were rejected and the 8th, judged against the rejected three, was kept
C31_Witness ==
    /\ call # <<>>
    /\ call[1].endpoint = "get_network_stats_data"
    /\ call[1].returned
    /\ Len(network_stats) = 8
    /\ \A i \in 1..4 : network_stats[i].qli_hashrate = Float(10)
    /\ \A i \in 5..8 : network_stats[i].qli_hashrate = Float(100)
    /\ \A i \in 5..7 : network_stats[i] \notin Range(call[1].valid_records)
    /\ network_stats[8] \in Range(call[1].valid_records)

\* the pool's source was absent at the build, or reported no accepted solution
PoolUnusable(entry) == entry = <<>> \/ entry[1].accepted_solution = 0

\* the score source or a pool source was absent, or a pool had no accepted
\* solution, when the snapshot was built
SourcesIncomplete(tool_data) ==
    \/ tool_data.qli_hashrate = <<>>
    \/ PoolUnusable(tool_data.apool)
    \/ PoolUnusable(tool_data.solutions)
    \/ PoolUnusable(tool_data.minerlab)

\* C32: no step of the evaluation of a snapshot built with the score source
\* or a pool source absent, or with a pool reporting zero accepted solutions,
\* changes the Samples: a Sample is inserted only for a snapshot with all four
\* sources present and accepted solutions in every pool.
C32_CompleteSourcesOnly ==
    [][\A p \in Procs :
         /\ (CalcStep(p) /\ SourcesIncomplete(loc[p].tool_data[1]))
            => network_stats' = network_stats
         /\ (CalcStep(p) /\ Len(network_stats') > Len(network_stats))
            => /\ loc[p].tool_data[1].qli_hashrate # <<>>
               /\ \A entry \in {loc[p].tool_data[1].apool, loc[p].tool_data[1].solutions,
                                 loc[p].tool_data[1].minerlab} :
                     entry # <<>> /\ entry[1].accepted_solution > 0]_vars

\* after a first Sample, the evaluation of a snapshot whose minerlab pool had
\* no accepted solution has ended in 'validation' with nothing inserted
C32_Witness ==
    /\ Len(network_stats) = 1
    /\ network_stats_logs # <<>>
    /\ LastLog(network_stats_logs).event_type = "validation"
    /\ LastLog(network_stats_logs).timestamp >= network_stats[1].timestamp + 300
    /\ \E p \in Procs :
          /\ pc[p] = "idle"
          /\ loc[p].tool_data # <<>>
          /\ loc[p].tool_data[1].minerlab # <<>>
          /\ loc[p].tool_data[1].minerlab[1].accepted_solution = 0
          /\ loc[p].current_time = LastLog(network_stats_logs).timestamp

\* the entry of the snapshot in the cache
Stored == cache.get_tool_data

\* the results a build at this instant can return
FreshResults ==
    {build_tool_data(up, network_stats, network_stats_logs, now).result : up \in UpstreamsCache}

\* C33: a cycle that calls get_tool_data less than 300 s after the call that
\* filled the cache leaves the entry as it is, logs nothing of a fetch, reads
\* no Samples and goes on with the stored result (a success snapshot is
\* evaluated, an error result ends the cycle); a cycle at or beyond 300 s, or
\* on an empty cache, stores the result of a build stamped with the time of the
\* call; and an evaluation reads the idle flag of the stored snapshot.
C33_SnapshotCache ==
    [][/\ UpdateStep =>
            IF Stored # <<>> /\ now < Stored[1].timestamp + 300
            THEN /\ cache' = cache
                 /\ \A i \in 1..Len(Appended) : Appended[i].message \in {"triggered", "format"}
                 /\ \A p \in Procs : loc'[p] # loc[p] => loc'[p].network_stats_data = <<>>
                 /\ IF Stored[1].result.status = "success"
                    THEN \E p \in Procs : /\ RunStarts(p)
                                          /\ loc'[p].tool_data = <<Stored[1].result>>
                                          /\ loc'[p].network_stats_data = <<>>
                    ELSE pc' = pc /\ Logged("error")
            ELSE /\ cache'.get_tool_data # <<>>
                 /\ cache'.get_tool_data[1].timestamp = now
                 /\ cache'.get_tool_data[1].result \in FreshResults
                 /\ \E p \in Procs :
                       loc'[p].network_stats_data = get_network_stats_data(network_stats, now)
       /\ \A p \in Procs :
            ReadStep(p) => /\ loc[p].tool_data = <<Stored[1].result>>
                           /\ now < Stored[1].timestamp + 300
                           /\ loc'[p].is_idle = get_idle(Stored[1].result)]_vars

\* 299 s after an idle snapshot filled the cache a second cycle has evaluated
\* that snapshot and skipped as idle
C33_Witness ==
    /\ Stored # <<>>
    /\ Stored[1].timestamp = now - 299
    /\ cycles = 2
    /\ \E p \in Procs :
          /\ pc[p] = "idle"
          /\ loc[p].current_time = now
          /\ loc[p].tool_data = <<Stored[1].result>>
          /\ loc[p].is_idle = "true"
    /\ LastLog(network_stats_logs).event_type = "skip"
    /\ LastLog(network_stats_logs).timestamp = now

====
